---- MODULE Spec2Model ----
(***************************************************************************)
(* Chrome Time Tracker: the tracking session state machine and the         *)
(* durability pipeline.                                                    *)
(*                                                                         *)
(* The repository holds two generations of the background script:         *)
(*   - the service worker built around class TrackingState                 *)
(*     (src/unnamed/part_004): handleUrlChange / saveTimeData,             *)
(*   - class TimeTracker (src/scripts/background.js, lines 1-511):         *)
(*     handleTabChange / pauseCurrentTracking / recordTimeSpent /          *)
(*     flushPendingData with the in-memory pendingData buffer.             *)
(* Each is modelled as its own specification over the shared clock and     *)
(* durable store; the URL normalizers are modelled as operators over       *)
(* tokenised addresses and exercised by a third specification.             *)
(*                                                                         *)
(* JavaScript runs every handler to its next await without interruption,   *)
(* so one action of the model is one such run-to-await segment.            *)
(***************************************************************************)
EXTENDS Integers, Sequences, FiniteSets, TLC

VARIABLES
    \* ---- URL normalizer harness ----
    nzImpl,        \* which normalizeUrl is applied: "TimeTracker" or "TrackingState"
    nzEdit,        \* how address B differs from address A
    nzA, nzB,      \* two raw addresses (token sequences)
    nzKeys,        \* <<>> or <<normalizeUrl(A), normalizeUrl(B)>>
    nzAgain,       \* <<>> or <<normalizeUrl(normalizeUrl(A))>>
    \* ---- environment shared by both background scripts ----
    now,           \* Date.now(), in milliseconds
    store,         \* chrome.storage.local, today's DayRecord: key -> milliseconds
    \* ---- service worker (TrackingState) ----
    swUrl,         \* trackingState.currentUrl ('' is <<>>)
    swStart,       \* trackingState.startTime (0 when no session)
    swTracking,    \* trackingState.isTracking
    swFlag,        \* persisted isTracking: <<>> (no such key), <<TRUE>> or <<FALSE>>
    swTasks,       \* suspended async handlers: sequence of records
    swIssued,      \* history: key -> sum of timeMs handed to saveTimeData
    swEnded,       \* history: set of sessions ended by the clock
    swFailed,      \* history: a storage operation has failed
    \* ---- TimeTracker ----
    ttUrl,         \* this.currentUrl (null is <<>>)
    ttTab,         \* this.currentTabId (null is 0)
    ttStart,       \* this.startTime (null is 0)
    ttTracking,    \* this.isTracking
    ttActive,      \* this.isChromeActive
    ttLastSave,    \* this.lastSaveTime
    ttBuf,         \* this.pendingData: today's entry, if any
    ttTasks,       \* suspended async handlers: sequence of records
    ttRaw,         \* history: the raw address of the open session
    ttVisits,      \* history: raw address -> sum of elapsed times recorded
    ttFailed,      \* history: a storage operation has failed
    ttClosed,      \* the tabs that were removed
    \* ---- retention sweep (performDataCleanup) ----
    cuToday,       \* new Date(): <<year, month 1..12, day>>
    cuStore,       \* the dates whose DayRecord (key data_<date>) is in storage
    cuBefore,      \* history: cuStore when the sweep read it
    cuRemove,      \* dataKeysToRemove: the date strings marked for removal
    cuPc,          \* "idle", "get", "remove", "meta", "done" or "failed"
    cuExtra,       \* the other storage entries: <<"data_" or "", rest of key, value>>
    cuMeta,        \* the lastAutomaticCleanup entry, <<>> while there is none
    \* ---- service worker lifecycle and auto-resume ----
    arUp,          \* the service worker is running
    arRecord,      \* persisted autoResumeTimer: [active, endTime]
    arId,          \* trackingState.autoResumeTimeoutId (null is 0)
    arTimers,      \* pending setTimeout callbacks: set of [id, at]
    arNextId,      \* the id the next setTimeout returns
    arStarts,      \* how many times the worker has been started
    arRequests,    \* how many requests the pages have sent
    pgPc,          \* statistics page: "idle", "startmsg" or "cancelmsg"
    pgEnd,         \* statistics page: endTime of the timer it is starting
    arM,           \* autoResumeMinutes of the disable request being handled (-1: none)
    arOwed,        \* history: a disable request with auto-resume has been answered
    arExpired,     \* history: the record was active and past its endTime at start
    arRestoreRuns, \* history: executeAutoResume calls by restoreAutoResumeTimer since start
    arLast,        \* history: the argument of the last saveTrackingState call
    arLastAtStart, \* history: arLast when the worker was last started
    \* ---- the foreground page, as reported to the service worker ----
    fgUrl,         \* the address of the last tab event handleUrlChange received
    fgEvents,      \* how many tab events handleUrlChange has received
    \* ---- TimeTracker: focus, tab removal, shutdown ----
    fcTarget,      \* history: <<>> or the last startTrackingUrl call, while no
                   \* handler has called pauseCurrentTracking since
    fcBy,          \* history: the handler whose pauseCurrentTracking last found a session
    fcEvents,      \* how many events the TimeTracker has received
    fcReports,     \* how many focus reports it has received
    fcRepeat,      \* history: a report repeated the focus state while a session was open
    fcShut,        \* handleBrowserShutdown: "no", "running" or "done"
    fcOwed,        \* history: DayRecord plus buffer when handleBrowserShutdown paused
    \* ---- TimeTracker: its own auto-resume callbacks ----
    tmTracking,    \* this.isTracking
    tmFlag,        \* persisted isTracking: <<>> or <<flag>>
    tmRecord,      \* persisted autoResumeTimer: the resume time, 0 while there is none
    tmTimers,      \* pending setTimeout callbacks: set of [id, at]
    tmNextId,      \* the id the next setTimeout returns
    tmTasks,       \* the handlers suspended at an await
    tmReady,       \* init has called setupEventListeners
    tmStarts,      \* how many times the script has been started
    tmRequests,    \* how many messages and startup events have arrived
    tmFired,       \* history: the callbacks that have run
    \* ---- TimeTracker with the tracking verification poll ----
    vfTracking,    \* this.isTracking
    vfActive,      \* this.isChromeActive
    vfSession,     \* this.currentUrl is set
    vfTabOk,       \* the active tab has an address isValidUrl accepts
    vfTasks,       \* the handlers suspended at an await
    vfEvents,      \* how many events and messages have arrived
    vfFails,       \* how many chrome.tabs.query calls have thrown
    vfFrom         \* history: who called the startTrackingUrl of the open session

nzVars == <<nzImpl, nzEdit, nzA, nzB, nzKeys, nzAgain>>
envVars == <<now, store>>
swVars == <<swUrl, swStart, swTracking, swFlag, swTasks, swIssued, swEnded, swFailed>>
ttVars == <<ttUrl, ttTab, ttStart, ttTracking, ttActive, ttLastSave, ttBuf, ttTasks,
           ttRaw, ttVisits, ttFailed, ttClosed>>
cuVars == <<cuToday, cuStore, cuBefore, cuRemove, cuPc, cuExtra, cuMeta>>
arVars == <<arUp, arRecord, arId, arTimers, arNextId, arStarts, arRequests, pgPc, pgEnd,
           arM, arOwed, arExpired, arRestoreRuns, arLast, arLastAtStart>>
fgVars == <<fgUrl, fgEvents>>
fcVars == <<fcTarget, fcBy, fcEvents, fcReports, fcRepeat, fcShut, fcOwed>>
tmVars == <<tmTracking, tmFlag, tmRecord, tmTimers, tmNextId, tmTasks, tmReady, tmStarts,
           tmRequests, tmFired>>
vfVars == <<vfTracking, vfActive, vfSession, vfTabOk, vfTasks, vfEvents, vfFails, vfFrom>>
vars == <<nzVars, envVars, swVars, ttVars, cuVars, arVars, fgVars, fcVars, tmVars, vfVars>>
\* What the actions of one specification leave alone.
nzOthers == <<envVars, swVars, ttVars, cuVars, arVars, fgVars, fcVars, tmVars, vfVars>>
swOthers == <<nzVars, ttVars, cuVars, arVars, fgVars, fcVars, tmVars, vfVars>>
ttOthers == <<nzVars, swVars, cuVars, arVars, fgVars, fcVars, tmVars, vfVars>>
cuOthers == <<nzVars, envVars, swVars, ttVars, arVars, fgVars, fcVars, tmVars, vfVars>>
arOthers == <<nzVars, ttVars, cuVars, fgVars, fcVars, tmVars, vfVars>>
fgOthers == <<nzVars, ttVars, cuVars, arVars, fcVars, tmVars, vfVars>>
fcOthers == <<nzVars, swVars, cuVars, arVars, fgVars, tmVars, vfVars>>
tmOthers == <<nzVars, store, swVars, ttVars, cuVars, arVars, fgVars, fcVars, vfVars>>
vfOthers == <<nzVars, envVars, swVars, ttVars, cuVars, arVars, fgVars, fcVars, tmVars>>

(***************************************************************************)
(* Addresses.  An address is a sequence of tokens, e.g.                    *)
(*   <<"https:", "//", "www.", "a.com", "/", "p", "/", "?x=1", "#y">>      *)
(* for https://www.a.com/p/?x=1#y.  new URL() is modelled by ParseUrl,     *)
(* which splits the tokens into protocol, hostname, pathname, search and   *)
(* hash, or fails.                                                         *)
(***************************************************************************)
MaxWww == 2      \* leading "www." labels on a generated host
MaxSlash == 2    \* trailing slashes on a generated path
MaxSegs == 1     \* path segments of a generated address

Schemes == {"https:", "file:", "chrome:", "chrome-extension:"}
Hosts == {"a.com", "b.org", "localhost"}
PathTokens == {"/", "p"}
Queries == {"?x=1"}
Frags == {"#y"}

RECURSIVE Repeat(_, _)
Repeat(tok, n) == IF n = 0 THEN <<>> ELSE <<tok>> \o Repeat(tok, n - 1)

RECURSIVE SegPath(_)
SegPath(n) == IF n = 0 THEN <<>> ELSE <<"/", "p">> \o SegPath(n - 1)

\* The raw address with the given parts.
MkUrl(scheme, www, host, segs, slashes, q, f) ==
    <<scheme, "//">> \o Repeat("www.", www) \o <<host>>
        \o SegPath(segs) \o Repeat("/", slashes) \o q \o f

\* A string new URL() rejects: it has no scheme.
Malformed == <<"a.com", "/", "p">>

RECURSIVE RunLen(_, _, _)
\* Number of consecutive tokens of u, from index i on, that lie in S.
RunLen(u, i, S) ==
    IF i > Len(u) \/ u[i] \notin S THEN 0 ELSE 1 + RunLen(u, i + 1, S)

ParseUrl(u) ==
    LET w == RunLen(u, 3, {"www."})
        h == 3 + w
        p == RunLen(u, h + 1, PathTokens)
        rest == SubSeq(u, h + 1 + p, Len(u))
        path == SubSeq(u, h + 1, h + p)
        good == /\ Len(u) >= 3
                /\ u[1] \in Schemes
                /\ u[2] = "//"
                /\ h <= Len(u)
                /\ u[h] \in Hosts
                /\ (path = <<>> \/ path[1] = "/")
                /\ \/ rest = <<>>
                   \/ Len(rest) = 1 /\ rest[1] \in Queries \cup Frags
                   \/ Len(rest) = 2 /\ rest[1] \in Queries /\ rest[2] \in Frags
    IN  IF ~good THEN [ok |-> FALSE]
        ELSE [ok |-> TRUE,
              protocol |-> u[1],
              hostname |-> SubSeq(u, 3, h),
              \* an empty path of an http(s) address parses as "/"
              pathname |-> IF path = <<>> THEN <<"/">> ELSE path,
              search |-> SelectSeq(rest, LAMBDA t : t \in Queries),
              hash |-> SelectSeq(rest, LAMBDA t : t \in Frags)]

\* TimeTracker.normalizeUrl
normalizeUrl(url) ==
    LET urlObj == ParseUrl(url) IN
    IF ~urlObj.ok THEN url
    ELSE LET hostname == IF Head(urlObj.hostname) = "www."
                            THEN Tail(urlObj.hostname)
                            ELSE urlObj.hostname
             pn == urlObj.pathname
             pathname == IF pn # <<"/">> /\ pn[Len(pn)] = "/"
                            THEN SubSeq(pn, 1, Len(pn) - 1)
                            ELSE pn
         IN  <<urlObj.protocol, "//">> \o hostname \o pathname

\* A normalizer that forgets to drop the query string.
swNormalizeUrlKeepsQuery(url) ==
    IF url = <<>> THEN url
    ELSE LET urlObj == ParseUrl(url) IN
         IF ~urlObj.ok THEN url
         ELSE <<urlObj.protocol, "//">> \o urlObj.hostname \o urlObj.pathname
                  \o urlObj.search

\* TrackingState.normalizeUrl
swNormalizeUrl(url) ==
    IF url = <<>> THEN url
    ELSE LET urlObj == ParseUrl(url) IN
         IF ~urlObj.ok THEN url
         ELSE <<urlObj.protocol, "//">> \o urlObj.hostname \o urlObj.pathname

(***************************************************************************)
(* URL normalizer harness: draw two addresses that differ in one respect,  *)
(* normalize both, then normalize the first key again.                     *)
(***************************************************************************)
Edits == {"query", "fragment", "www", "slash"}

\* The parts of the generated addresses: <<www, host, segs, slashes, q, f>>.
UrlParts ==
    (0..MaxWww) \X Hosts \X (0..MaxSegs) \X (0..MaxSlash)
        \X {<<>>, <<"?x=1">>} \X {<<>>, <<"#y">>}

PartsUrl(p) == MkUrl("https:", p[1], p[2], p[3], p[4], p[5], p[6])

\* Address p changed by one edit; the edit must change it.
Edited(p, e) ==
    CASE e = "query" -> [p EXCEPT ![5] = IF p[5] = <<>> THEN <<"?x=1">> ELSE <<>>]
      [] e = "fragment" -> [p EXCEPT ![6] = IF p[6] = <<>> THEN <<"#y">> ELSE <<>>]
      [] e = "www" -> [p EXCEPT ![1] = p[1] + 1]
      [] e = "slash" -> [p EXCEPT ![4] = p[4] + 1]

Normalizer(impl, url) ==
    IF impl = "TimeTracker" THEN normalizeUrl(url) ELSE swNormalizeUrl(url)

NzIdle ==
    /\ nzImpl = "TimeTracker" /\ nzEdit = "query"
    /\ nzA = <<>> /\ nzB = <<>> /\ nzKeys = <<>> /\ nzAgain = <<>>

NzInit ==
    /\ nzImpl \in {"TimeTracker", "TrackingState"}
    /\ nzEdit \in Edits
    /\ \/ \E p \in UrlParts :
            \* a trailing slash is only an edit of a non-root path
            /\ nzEdit = "slash" => p[3] > 0
            /\ nzA = PartsUrl(p)
            /\ nzB = PartsUrl(Edited(p, nzEdit))
       \/ /\ nzEdit = "query"
          /\ nzA = Malformed
          /\ nzB = Malformed \o <<"?x=1">>
    /\ nzKeys = <<>>
    /\ nzAgain = <<>>

NzNormalize ==
    /\ nzKeys = <<>>
    /\ nzKeys' = <<Normalizer(nzImpl, nzA), Normalizer(nzImpl, nzB)>>
    /\ UNCHANGED <<nzImpl, nzEdit, nzA, nzB, nzAgain>>
    /\ UNCHANGED nzOthers

NzRenormalize ==
    /\ nzKeys # <<>>
    /\ nzAgain = <<>>
    /\ nzAgain' = <<Normalizer(nzImpl, nzKeys[1])>>
    /\ UNCHANGED <<nzImpl, nzEdit, nzA, nzB, nzKeys>>
    /\ UNCHANGED nzOthers

(***************************************************************************)
(* Environment: the clock and the durable store.                           *)
(***************************************************************************)
StartTime == 20000    \* Date.now() when the script is loaded
SwHorizon == 6000     \* the service worker's clock stops this long after StartTime
TtHorizon == 15000    \* the TimeTracker's clock stops this long after StartTime
TickSteps == {1000, 3000}
SwTickSteps == {1500, 3000}   \* a visit below the minimum duration, one that meets it
TtTickSteps == {5000}

\* The addresses the active tab shows.
UrlA == MkUrl("https:", 0, "a.com", 1, 0, <<"?x=1">>, <<>>)
UrlA2 == MkUrl("https:", 0, "a.com", 1, 0, <<>>, <<"#y">>)
UrlB == MkUrl("https:", 0, "b.org", 0, 1, <<>>, <<>>)
UrlInternal == MkUrl("chrome:", 0, "a.com", 0, 1, <<>>, <<>>)
UrlFile == MkUrl("file:", 0, "localhost", 1, 0, <<>>, <<>>)
TabUrls == {UrlA, UrlB, UrlInternal, UrlFile}

Keys == {swNormalizeUrl(UrlA), swNormalizeUrl(UrlB), swNormalizeUrl(UrlFile)}
EmptyDay == [k \in Keys |-> 0]

EnvInit ==
    /\ now = StartTime
    /\ store = EmptyDay

Remove(s, i) == SubSeq(s, 1, i - 1) \o SubSeq(s, i + 1, Len(s))

(***************************************************************************)
(* Service worker (TrackingState).                                         *)
(***************************************************************************)
MIN_VISIT_DURATION_MS == 3000
MaxTasks == 2         \* async handlers suspended at an await at one time

\* A suspended handler.  op: the handler; pc: the await it is suspended at
\* ("get", "set": saveTimeData's storage calls; "flag": saveTrackingState's
\* storage.set; "tabs": chrome.tabs.get / chrome.tabs.query);
\* url, ms: saveTimeData's arguments; data: the DayRecord it will write.
SwTask(op, pc, url, ms, data) ==
    [op |-> op, pc |-> pc, url |-> url, ms |-> ms, data |-> data]

Channel(t) ==
    CASE t.pc \in {"tabs", "query"} -> "tabs"
      [] t.pc = "wins" -> "windows"
      [] OTHER -> "storage"

\* The platform answers the requests of one source in the order they were made.
SwReady(i) ==
    /\ i \in 1..Len(swTasks)
    /\ \A j \in 1..(i - 1) : Channel(swTasks[j]) # Channel(swTasks[i])

\* TrackingState.isValidUrl
swIsValidUrl(url) ==
    /\ url # <<>>
    /\ ~(Len(url) >= 2 /\ url[2] = "//" /\ url[1] \in {"chrome:", "chrome-extension:"})

\* A threshold check that lets every visit through.
isValidDurationAlways(durationMs) == durationMs >= 0

\* TrackingState.isValidDuration
isValidDuration(durationMs) == durationMs >= MIN_VISIT_DURATION_MS

\* TrackingState.getCurrentSession().duration
SwDuration == IF swStart > 0 THEN now - swStart ELSE 0

SwHasSession == swUrl # <<>> /\ swStart > 0

SwInit ==
    /\ swUrl = <<>>
    /\ swStart = 0
    /\ swTracking = TRUE
    /\ swFlag = <<>>
    /\ swTasks = <<>>
    /\ swIssued = EmptyDay
    /\ swEnded = {}
    /\ swFailed = FALSE

\* The clock ending the current session: what it decided, for the record.
SwEndRecord(by, saved) ==
    [by |-> by, short |-> SwDuration < MIN_VISIT_DURATION_MS, saved |-> saved]

\* handleUrlChange(rawUrl), called with the suspended handlers `base`.
HandleUrlChange(rawUrl, base) ==
    IF ~swIsValidUrl(rawUrl)
    THEN /\ swTasks' = base
         /\ UNCHANGED <<swUrl, swStart, swIssued, swEnded>>
    ELSE LET normalizedUrl == swNormalizeUrl(rawUrl)
             save == SwHasSession /\ isValidDuration(SwDuration) /\ SwDuration > 0
         IN  /\ swTasks' = IF save
                             THEN Append(base, SwTask("save", "get", swUrl, SwDuration, EmptyDay))
                             ELSE base
             /\ swIssued' = IF save
                              THEN [swIssued EXCEPT ![swUrl] = @ + SwDuration]
                              ELSE swIssued
             /\ swEnded' = IF SwHasSession
                             THEN swEnded \cup {SwEndRecord("urlChange", save)}
                             ELSE swEnded
             /\ swUrl' = normalizedUrl
             /\ swStart' = now

SwTick ==
    /\ \E d \in SwTickSteps :
          /\ now + d <= StartTime + SwHorizon
          /\ now' = now + d
    /\ UNCHANGED <<store, swVars>>
    /\ UNCHANGED swOthers

\* chrome.tabs.onActivated: up to the await of chrome.tabs.get
SwTabActivated ==
    /\ swTracking
    /\ Len(swTasks) < MaxTasks
    /\ swTasks' = Append(swTasks, SwTask("activated", "tabs", <<>>, 0, EmptyDay))
    /\ UNCHANGED <<envVars, swUrl, swStart, swTracking, swFlag, swIssued, swEnded, swFailed>>
    /\ UNCHANGED swOthers

\* chrome.tabs.onActivated: chrome.tabs.get answers with the tab's address
ActivatedAnswer(i, url) ==
    /\ SwReady(i)
    /\ swTasks[i].op = "activated"
    /\ HandleUrlChange(url, Remove(swTasks, i))
    /\ UNCHANGED <<envVars, swTracking, swFlag, swFailed>>

\* chrome.tabs.onActivated: chrome.tabs.get throws
ActivatedThrows(i) ==
    /\ SwReady(i)
    /\ swTasks[i].op = "activated"
    /\ swTasks' = Remove(swTasks, i)
    /\ UNCHANGED <<swUrl, swStart, swIssued, swEnded>>
    /\ UNCHANGED <<envVars, swTracking, swFlag, swFailed>>

SwActivatedResolve(i) ==
    /\ \/ \E url \in TabUrls : ActivatedAnswer(i, url)
       \/ ActivatedThrows(i)
    /\ UNCHANGED swOthers

\* chrome.tabs.onUpdated with status 'complete' on the active tab
TabUpdated(url) ==
    /\ swTracking
    /\ Len(swTasks) < MaxTasks
    /\ HandleUrlChange(url, swTasks)
    /\ UNCHANGED <<envVars, swTracking, swFlag, swFailed>>

SwTabUpdated == (\E url \in TabUrls : TabUpdated(url)) /\ UNCHANGED swOthers

\* handleEnableTracking: saveTrackingState(true) up to its storage.set
EnableStart ==
    /\ Len(swTasks) < MaxTasks
    /\ swTracking' = TRUE
    /\ swTasks' = Append(swTasks, SwTask("enable", "flag", <<>>, 0, EmptyDay))
    /\ UNCHANGED <<envVars, swUrl, swStart, swFlag, swIssued, swEnded, swFailed>>

SwEnable == EnableStart /\ UNCHANGED swOthers

\* handleEnableTracking: storage.set({isTracking}) answered (a failure is
\* caught inside saveTrackingState); on to chrome.tabs.query
EnableFlagDone(i) ==
    /\ SwReady(i)
    /\ swTasks[i].op = "enable" /\ swTasks[i].pc = "flag"
    /\ \/ swFlag' = <<TRUE>> /\ UNCHANGED swFailed
       \/ swFailed' = TRUE /\ UNCHANGED swFlag
    /\ swTasks' = Append(Remove(swTasks, i), [swTasks[i] EXCEPT !.pc = "tabs"])
    /\ UNCHANGED <<envVars, swUrl, swStart, swTracking, swIssued, swEnded>>

SwEnableFlagDone(i) == EnableFlagDone(i) /\ UNCHANGED swOthers

\* handleEnableTracking: chrome.tabs.query answered (or threw), response sent
EnableTabsDone(i) ==
    /\ SwReady(i)
    /\ swTasks[i].op = "enable" /\ swTasks[i].pc = "tabs"
    /\ \/ \E url \in TabUrls : HandleUrlChange(url, Remove(swTasks, i))
       \/ /\ swTasks' = Remove(swTasks, i)
          /\ UNCHANGED <<swUrl, swStart, swIssued, swEnded>>
    /\ UNCHANGED <<envVars, swTracking, swFlag, swFailed>>

SwEnableTabs(i) == EnableTabsDone(i) /\ UNCHANGED swOthers

\* handleDisableTracking up to its first await: saveTimeData's storage.get
\* when the session is long enough, else saveTrackingState's storage.set
DisableStart ==
    /\ Len(swTasks) < MaxTasks
    /\ LET save == SwHasSession /\ isValidDuration(SwDuration) /\ SwDuration > 0
       IN  /\ swEnded' = IF SwHasSession
                           THEN swEnded \cup {SwEndRecord("disable", save)}
                           ELSE swEnded
           /\ IF save
              THEN /\ swTasks' = Append(swTasks,
                                    SwTask("disable", "get", swUrl, SwDuration, EmptyDay))
                   /\ swIssued' = [swIssued EXCEPT ![swUrl] = @ + SwDuration]
                   /\ UNCHANGED swTracking
              ELSE /\ swTasks' = Append(swTasks, SwTask("disable", "flag", <<>>, 0, EmptyDay))
                   /\ swTracking' = FALSE
                   /\ UNCHANGED swIssued
    /\ UNCHANGED <<envVars, swUrl, swStart, swFlag, swFailed>>

SwDisable == DisableStart /\ UNCHANGED swOthers

\* What follows saveTimeData for the handler in `t`: nothing for an un-awaited
\* call; for handleDisableTracking, saveTrackingState(false) up to its storage.set.
SwAfterSave(i) ==
    IF swTasks[i].op = "disable"
    THEN /\ swTracking' = FALSE
         /\ swTasks' = Append(Remove(swTasks, i), [swTasks[i] EXCEPT !.pc = "flag"])
    ELSE /\ swTasks' = Remove(swTasks, i)
         /\ UNCHANGED swTracking

\* saveTimeData: storage.get answered; merge and issue storage.set
SaveGetDone(i) ==
    /\ SwReady(i)
    /\ swTasks[i].pc = "get"
    /\ \/ /\ swTasks' = Append(Remove(swTasks, i),
                           [swTasks[i] EXCEPT
                              !.pc = "set",
                              !.data = [store EXCEPT ![swTasks[i].url] = @ + swTasks[i].ms]])
          /\ UNCHANGED <<swTracking, swFailed>>
       \/ /\ swFailed' = TRUE
          /\ SwAfterSave(i)
    /\ UNCHANGED <<envVars, swUrl, swStart, swFlag, swIssued, swEnded>>

SwSaveGet(i) == SaveGetDone(i) /\ UNCHANGED swOthers

\* saveTimeData: storage.set({[key]: data}) applied and answered, or failed
SaveSetDone(i) ==
    /\ SwReady(i)
    /\ swTasks[i].pc = "set"
    /\ \/ store' = swTasks[i].data /\ UNCHANGED swFailed
       \/ swFailed' = TRUE /\ UNCHANGED store
    /\ SwAfterSave(i)
    /\ UNCHANGED <<now, swUrl, swStart, swFlag, swIssued, swEnded>>

SwSaveSet(i) == SaveSetDone(i) /\ UNCHANGED swOthers

\* handleDisableTracking: saveTrackingState's storage.set answered; reset();
\* sendResponse
DisableFlagDone(i) ==
    /\ SwReady(i)
    /\ swTasks[i].op = "disable" /\ swTasks[i].pc = "flag"
    /\ \/ swFlag' = <<FALSE>> /\ UNCHANGED swFailed
       \/ swFailed' = TRUE /\ UNCHANGED swFlag
    /\ swUrl' = <<>>
    /\ swStart' = 0
    /\ swTasks' = Remove(swTasks, i)
    /\ UNCHANGED <<envVars, swTracking, swIssued, swEnded>>

SwDisableFlagDone(i) == DisableFlagDone(i) /\ UNCHANGED swOthers

SwNext ==
    \/ SwTick
    \/ SwTabActivated
    \/ SwTabUpdated
    \/ SwEnable
    \/ SwDisable
    \/ \E i \in 1..MaxTasks :
          \/ SwActivatedResolve(i)
          \/ SwEnableFlagDone(i)
          \/ SwEnableTabs(i)
          \/ SwSaveGet(i)
          \/ SwSaveSet(i)
          \/ SwDisableFlagDone(i)

(***************************************************************************)
(* The service worker's tab events, with the page they report              *)
(* (src/unnamed/part_004, URL TRACKING).                                   *)
(***************************************************************************)
MaxFgEvents == 3     \* tab events handleUrlChange receives in one run

FgIdle ==
    /\ fgUrl = <<>>
    /\ fgEvents = 0

FgTick ==
    /\ \E d \in TickSteps :
          /\ now + d <= StartTime + SwHorizon
          /\ now' = now + d
    /\ UNCHANGED <<store, swVars, fgVars>>
    /\ UNCHANGED fgOthers

\* chrome.tabs.onUpdated with status 'complete' on the active tab
FgTabUpdated ==
    /\ fgEvents < MaxFgEvents
    /\ \E url \in TabUrls :
          /\ TabUpdated(url)
          /\ fgUrl' = url
    /\ fgEvents' = fgEvents + 1
    /\ UNCHANGED fgOthers

\* chrome.tabs.onActivated: up to the await of chrome.tabs.get
FgTabActivated ==
    /\ fgEvents + Len(SelectSeq(swTasks, LAMBDA t : t.op = "activated")) < MaxFgEvents
    /\ swTracking
    /\ Len(swTasks) < MaxTasks
    /\ swTasks' = Append(swTasks, SwTask("activated", "tabs", <<>>, 0, EmptyDay))
    /\ UNCHANGED <<envVars, swUrl, swStart, swTracking, swFlag, swIssued, swEnded, swFailed>>
    /\ UNCHANGED fgVars
    /\ UNCHANGED fgOthers

\* chrome.tabs.onActivated: chrome.tabs.get answers and handleUrlChange(tab.url)
\* is called, or chrome.tabs.get throws
FgActivatedResolve(i) ==
    /\ \/ /\ \E url \in TabUrls :
                /\ ActivatedAnswer(i, url)
                /\ fgUrl' = url
          /\ fgEvents' = fgEvents + 1
       \/ /\ ActivatedThrows(i)
          /\ UNCHANGED fgVars
    /\ UNCHANGED fgOthers

FgSaveGet(i) == SaveGetDone(i) /\ UNCHANGED fgVars /\ UNCHANGED fgOthers

FgSaveSet(i) == SaveSetDone(i) /\ UNCHANGED fgVars /\ UNCHANGED fgOthers

FgNext ==
    \/ FgTick
    \/ FgTabUpdated
    \/ FgTabActivated
    \/ \E i \in 1..MaxTasks :
          \/ FgActivatedResolve(i)
          \/ FgSaveGet(i)
          \/ FgSaveSet(i)

(***************************************************************************)
(* Service worker lifecycle and the auto-resume timer                      *)
(* (src/unnamed/part_004, with the statistics page's requests).            *)
(*                                                                         *)
(* Further suspended handlers: op "init" (initializeExtension) at pc       *)
(* "load" (loadTrackingState's storage.get) or "restore"                   *)
(* (restoreAutoResumeTimer's storage.get); op "resume" (executeAutoResume) *)
(* at pc "flag" (saveTrackingState's storage.set), "rm" (storage.remove)   *)
(* or "tabs" (chrome.tabs.query).  The data sweep that initializeExtension *)
(* starts last is the subject of the retention-sweep section.              *)
(***************************************************************************)
AUTO_RESUME_MS == 600000     \* the statistics page asks for 10 minutes
ArStep == AUTO_RESUME_MS     \* the clock advances in steps of 10 minutes
ArHorizon == 600000          \* the clock stops this long after StartTime
MaxRequests == 3             \* requests the pages send in one run
MaxTimers == 2               \* setTimeout calls in one run
MaxStarts == 2               \* starts of the service worker in one run
ResumeMinutes == {0, 10}     \* message.autoResumeMinutes

NoRecord == [active |-> FALSE, endTime |-> 0]

\* The service worker is up and nothing of the auto-resume machinery is in use.
ArIdle ==
    /\ arUp = TRUE
    /\ arRecord = NoRecord
    /\ arId = 0
    /\ arTimers = {}
    /\ arNextId = 1
    /\ arStarts = 0
    /\ arRequests = 0
    /\ pgPc = "idle"
    /\ pgEnd = 0
    /\ arM = -1
    /\ arOwed = FALSE
    /\ arExpired = FALSE
    /\ arRestoreRuns = 0
    /\ arLast = TRUE
    /\ arLastAtStart = TRUE

\* The extension has been installed and its service worker is about to start.
ArInit ==
    /\ arUp = FALSE
    /\ arRecord = NoRecord
    /\ arId = 0
    /\ arTimers = {}
    /\ arNextId = 1
    /\ arStarts = 0
    /\ arRequests = 0
    /\ pgPc = "idle"
    /\ pgEnd = 0
    /\ arM = -1
    /\ arOwed = FALSE
    /\ arExpired = FALSE
    /\ arRestoreRuns = 0
    /\ arLast = TRUE
    /\ arLastAtStart = TRUE

\* A loadTrackingState that ignores what was persisted.
loadTrackingStateDefault(result) == TRUE

\* loadTrackingState: result.isTracking !== false
loadTrackingState(result) == result # <<FALSE>>

\* cancelBackgroundAutoResumeTimer: the pending callbacks after clearTimeout
cancelBackgroundAutoResumeTimer ==
    IF arId # 0 THEN {t \in arTimers : t.id # arId} ELSE arTimers

\* executeAutoResume up to its first await: saveTrackingState(true) has set the
\* in-memory flag and waits for its storage.set.  `base`: the other suspended
\* handlers; `timers`: the pending callbacks.
ExecuteAutoResume(base, timers) ==
    /\ swTracking' = TRUE
    /\ arLast' = TRUE
    /\ swTasks' = Append(base, SwTask("resume", "flag", <<>>, 0, EmptyDay))
    /\ arTimers' = timers
    /\ arOwed' = FALSE

\* startBackgroundAutoResumeTimer(endTime)
StartBackgroundAutoResumeTimer(endTime, base) ==
    IF endTime - now <= 0
    THEN /\ ExecuteAutoResume(base, cancelBackgroundAutoResumeTimer)
         /\ arId' = 0
         /\ UNCHANGED arNextId
    ELSE /\ arNextId <= MaxTimers
         /\ arTimers' = cancelBackgroundAutoResumeTimer \cup {[id |-> arNextId, at |-> endTime]}
         /\ arId' = arNextId
         /\ arNextId' = arNextId + 1
         /\ swTasks' = base
         /\ UNCHANGED <<swTracking, arLast, arOwed>>

\* Time passes while nothing is in progress and no callback is due.
ArTick ==
    /\ swTasks = <<>>
    /\ pgPc = "idle"
    /\ \A t \in arTimers : t.at > now
    /\ now + ArStep <= StartTime + ArHorizon
    /\ now' = now + ArStep
    /\ UNCHANGED <<store, swVars, arVars>>
    /\ UNCHANGED arOthers

\* The browser stops the idle service worker: its memory and timers are gone.
ArStop ==
    /\ arUp
    /\ swTasks = <<>>
    /\ arStarts < MaxStarts
    /\ arUp' = FALSE
    /\ swUrl' = <<>>
    /\ swStart' = 0
    /\ swTracking' = TRUE
    /\ arId' = 0
    /\ arTimers' = {}
    /\ arOwed' = FALSE
    /\ UNCHANGED <<envVars, swFlag, swTasks, swIssued, swEnded, swFailed>>
    /\ UNCHANGED <<arRecord, arNextId, arStarts, arRequests, pgPc, pgEnd, arM, arExpired, arLastAtStart, arRestoreRuns, arLast>>
    /\ UNCHANGED arOthers

\* The service worker starts: chrome.runtime.onStartup, onInstalled, or both
\* fire, and each listener calls initializeExtension, which runs up to
\* loadTrackingState's storage.get.
ArStart ==
    /\ ~arUp
    /\ arUp' = TRUE
    /\ arStarts' = arStarts + 1
    /\ \E listeners \in 1..2 :
          swTasks' = [n \in 1..listeners |-> SwTask("init", "load", <<>>, 0, EmptyDay)]
    /\ arExpired' = (arRecord.active /\ arRecord.endTime <= now)
    /\ arRestoreRuns' = 0
    /\ arLastAtStart' = arLast
    /\ UNCHANGED <<envVars, swUrl, swStart, swTracking, swFlag, swIssued, swEnded, swFailed>>
    /\ UNCHANGED <<arRecord, arId, arTimers, arNextId, arRequests, pgPc, pgEnd, arM, arOwed, arLast>>
    /\ UNCHANGED arOthers

\* initializeExtension: loadTrackingState's storage.get answered, or threw;
\* on to restoreAutoResumeTimer's storage.get
ArLoad(i) ==
    /\ SwReady(i)
    /\ swTasks[i].op = "init" /\ swTasks[i].pc = "load"
    /\ \/ swTracking' = loadTrackingState(swFlag) /\ UNCHANGED swFailed
       \/ swTracking' = TRUE /\ swFailed' = TRUE
    /\ swTasks' = Append(Remove(swTasks, i), [swTasks[i] EXCEPT !.pc = "restore"])
    /\ UNCHANGED <<envVars, swUrl, swStart, swFlag, swIssued, swEnded>>
    /\ UNCHANGED arVars
    /\ UNCHANGED arOthers

\* A restore that takes every persisted timer for expired.
RemainingNone(timerData) == 0

\* restoreAutoResumeTimer: const remaining = timerData.endTime - Date.now()
Remaining(timerData) == timerData.endTime - now

\* initializeExtension: restoreAutoResumeTimer's storage.get answered, or threw
ArRestore(i) ==
    /\ SwReady(i)
    /\ swTasks[i].op = "init" /\ swTasks[i].pc = "restore"
    /\ \/ /\ ~arRecord.active
          /\ swTasks' = Remove(swTasks, i)
          /\ UNCHANGED <<swTracking, swFailed, arId, arTimers, arNextId, arOwed, arRestoreRuns, arLast>>
       \/ /\ arRecord.active
          /\ Remaining(arRecord) > 0
          /\ StartBackgroundAutoResumeTimer(arRecord.endTime, Remove(swTasks, i))
          /\ UNCHANGED <<swFailed, arRestoreRuns>>
       \/ /\ arRecord.active
          /\ Remaining(arRecord) <= 0
          /\ ExecuteAutoResume(Remove(swTasks, i), arTimers)
          /\ arRestoreRuns' = IF arRestoreRuns < 2 THEN arRestoreRuns + 1 ELSE 2
          /\ UNCHANGED <<swFailed, arId, arNextId>>
       \/ /\ swFailed' = TRUE
          /\ swTasks' = Remove(swTasks, i)
          /\ UNCHANGED <<swTracking, arId, arTimers, arNextId, arOwed, arRestoreRuns, arLast>>
    /\ UNCHANGED <<envVars, swUrl, swStart, swFlag, swIssued, swEnded>>
    /\ UNCHANGED <<arUp, arRecord, arStarts, arRequests, pgPc, pgEnd, arM, arExpired, arLastAtStart>>
    /\ UNCHANGED arOthers

\* The setTimeout callback runs: executeAutoResume()
ArTimerFire ==
    /\ arUp
    /\ Len(swTasks) < MaxTasks
    /\ \E t \in arTimers :
          /\ t.at <= now
          /\ ExecuteAutoResume(swTasks, arTimers \ {t})
    /\ UNCHANGED <<envVars, swUrl, swStart, swFlag, swIssued, swEnded, swFailed>>
    /\ UNCHANGED <<arUp, arRecord, arId, arNextId, arStarts, arRequests, pgPc, pgEnd, arM, arExpired, arLastAtStart, arRestoreRuns>>
    /\ UNCHANGED arOthers

\* executeAutoResume: saveTrackingState's storage.set answered (a failure is
\* caught inside saveTrackingState); on to storage.remove
ArResumeFlagDone(i) ==
    /\ SwReady(i)
    /\ swTasks[i].op = "resume" /\ swTasks[i].pc = "flag"
    /\ \/ swFlag' = <<TRUE>> /\ UNCHANGED swFailed
       \/ swFailed' = TRUE /\ UNCHANGED swFlag
    /\ swTasks' = Append(Remove(swTasks, i), [swTasks[i] EXCEPT !.pc = "rm"])
    /\ UNCHANGED <<envVars, swUrl, swStart, swTracking, swIssued, swEnded>>
    /\ UNCHANGED arVars
    /\ UNCHANGED arOthers

\* executeAutoResume: storage.remove(['autoResumeTimer']) answered, then
\* autoResumeTimeoutId = null and on to chrome.tabs.query; or it threw
ArResumeRemove(i) ==
    /\ SwReady(i)
    /\ swTasks[i].op = "resume" /\ swTasks[i].pc = "rm"
    /\ \/ /\ arRecord' = NoRecord
          /\ arId' = 0
          /\ swTasks' = Append(Remove(swTasks, i), [swTasks[i] EXCEPT !.pc = "tabs"])
          /\ UNCHANGED swFailed
       \/ /\ swFailed' = TRUE
          /\ swTasks' = Remove(swTasks, i)
          /\ UNCHANGED <<arRecord, arId>>
    /\ UNCHANGED <<envVars, swUrl, swStart, swTracking, swFlag, swIssued, swEnded>>
    /\ UNCHANGED <<arUp, arTimers, arNextId, arStarts, arRequests, pgPc, pgEnd, arM, arOwed, arExpired, arLastAtStart,
                   arRestoreRuns, arLast>>
    /\ UNCHANGED arOthers

\* executeAutoResume: chrome.tabs.query answered (or threw); handleUrlChange;
\* the notification is shown
ArResumeTabs(i) ==
    /\ SwReady(i)
    /\ swTasks[i].op = "resume" /\ swTasks[i].pc = "tabs"
    /\ \/ \E url \in TabUrls : HandleUrlChange(url, Remove(swTasks, i))
       \/ /\ swTasks' = Remove(swTasks, i)
          /\ UNCHANGED <<swUrl, swStart, swIssued, swEnded>>
    /\ UNCHANGED <<envVars, swTracking, swFlag, swFailed>>
    /\ UNCHANGED arVars
    /\ UNCHANGED arOthers

\* An enableTracking request arrives
ArEnable ==
    /\ arUp
    /\ arRequests < MaxRequests
    /\ arRequests' = arRequests + 1
    /\ EnableStart
    /\ arLast' = TRUE
    /\ arOwed' = FALSE
    /\ UNCHANGED <<arUp, arRecord, arId, arTimers, arNextId, arStarts, pgPc, pgEnd, arM,
                   arExpired, arLastAtStart, arRestoreRuns>>
    /\ UNCHANGED arOthers

ArEnableFlagDone(i) == EnableFlagDone(i) /\ UNCHANGED arVars /\ UNCHANGED arOthers

ArEnableTabs(i) == EnableTabsDone(i) /\ UNCHANGED arVars /\ UNCHANGED arOthers

\* handleDisableTracking has called saveTrackingState(false)
DisableAtFlag(t) == t.op = "disable" /\ t.pc = "flag"

\* A disableTracking request with message.autoResumeMinutes = m arrives
ArDisable ==
    /\ arUp
    /\ arRequests < MaxRequests
    /\ arRequests' = arRequests + 1
    /\ arM = -1
    /\ DisableStart
    /\ \E m \in ResumeMinutes : arM' = m
    /\ arLast' = IF DisableAtFlag(swTasks'[Len(swTasks')]) THEN FALSE ELSE arLast
    /\ arOwed' = FALSE
    /\ UNCHANGED <<arUp, arRecord, arId, arTimers, arNextId, arStarts, pgPc, pgEnd,
                   arExpired, arLastAtStart, arRestoreRuns>>
    /\ UNCHANGED arOthers

ArSaveGet(i) ==
    /\ SaveGetDone(i)
    /\ arLast' = IF swTasks[i].op = "disable" /\ DisableAtFlag(swTasks'[Len(swTasks')])
                 THEN FALSE ELSE arLast
    /\ UNCHANGED <<arUp, arRecord, arId, arTimers, arNextId, arStarts, arRequests, pgPc, pgEnd, arM,
                   arOwed, arExpired, arLastAtStart, arRestoreRuns>>
    /\ UNCHANGED arOthers

ArSaveSet(i) ==
    /\ SaveSetDone(i)
    /\ arLast' = IF swTasks[i].op = "disable" /\ DisableAtFlag(swTasks'[Len(swTasks')])
                 THEN FALSE ELSE arLast
    /\ UNCHANGED <<arUp, arRecord, arId, arTimers, arNextId, arStarts, arRequests, pgPc, pgEnd, arM,
                   arOwed, arExpired, arLastAtStart, arRestoreRuns>>
    /\ UNCHANGED arOthers

\* handleDisableTracking answers: autoResumeMinutes has only been logged
ArDisableFlagDone(i) ==
    /\ DisableFlagDone(i)
    /\ arOwed' = (arM > 0)
    /\ arM' = -1
    /\ UNCHANGED <<arUp, arRecord, arId, arTimers, arNextId, arStarts, arRequests, pgPc, pgEnd,
                   arExpired, arLastAtStart, arRestoreRuns, arLast>>
    /\ UNCHANGED arOthers

\* Statistics page, startAutoResumeTimer(10): storage.set of the record is
\* applied; the startAutoResumeTimer message is sent
PgStartTimer ==
    /\ pgPc = "idle"
    /\ arRequests < MaxRequests
    /\ arRequests' = arRequests + 1
    /\ arRecord' = [active |-> TRUE, endTime |-> now + AUTO_RESUME_MS]
    /\ pgEnd' = now + AUTO_RESUME_MS
    /\ pgPc' = "startmsg"
    /\ UNCHANGED <<envVars, swVars>>
    /\ UNCHANGED <<arUp, arId, arTimers, arNextId, arStarts, arM, arOwed, arExpired, arLastAtStart,
                   arRestoreRuns, arLast>>
    /\ UNCHANGED arOthers

\* handleStartAutoResumeTimer
ArStartMsg ==
    /\ arUp
    /\ pgPc = "startmsg"
    /\ Len(swTasks) < MaxTasks
    /\ StartBackgroundAutoResumeTimer(pgEnd, swTasks)
    /\ pgPc' = "idle"
    /\ UNCHANGED <<envVars, swUrl, swStart, swFlag, swIssued, swEnded, swFailed>>
    /\ UNCHANGED <<arUp, arRecord, arStarts, arRequests, pgEnd, arM, arExpired, arLastAtStart, arRestoreRuns>>
    /\ UNCHANGED arOthers

\* Statistics page, cancelActiveTimer: storage.remove(['autoResumeTimer']) is
\* applied; the cancelAutoResumeTimer message is sent
PgCancel ==
    /\ pgPc = "idle"
    /\ arRequests < MaxRequests
    /\ arRequests' = arRequests + 1
    /\ arRecord' = NoRecord
    /\ pgPc' = "cancelmsg"
    /\ UNCHANGED <<envVars, swVars>>
    /\ UNCHANGED <<arUp, arId, arTimers, arNextId, arStarts, pgEnd, arM, arOwed, arExpired, arLastAtStart,
                   arRestoreRuns, arLast>>
    /\ UNCHANGED arOthers

\* handleCancelAutoResumeTimer
ArCancelMsg ==
    /\ arUp
    /\ pgPc = "cancelmsg"
    /\ arTimers' = cancelBackgroundAutoResumeTimer
    /\ arId' = 0
    /\ pgPc' = "idle"
    /\ arOwed' = FALSE
    /\ UNCHANGED <<envVars, swVars>>
    /\ UNCHANGED <<arUp, arRecord, arNextId, arStarts, arRequests, pgEnd, arM, arExpired, arLastAtStart,
                   arRestoreRuns, arLast>>
    /\ UNCHANGED arOthers

ArNext ==
    \/ ArTick
    \/ ArStop
    \/ ArStart
    \/ ArTimerFire
    \/ ArEnable
    \/ ArDisable
    \/ PgStartTimer
    \/ ArStartMsg
    \/ PgCancel
    \/ ArCancelMsg
    \/ \E i \in 1..MaxTasks :
          \/ ArLoad(i)
          \/ ArRestore(i)
          \/ ArResumeFlagDone(i)
          \/ ArResumeRemove(i)
          \/ ArResumeTabs(i)
          \/ ArEnableFlagDone(i)
          \/ ArEnableTabs(i)
          \/ ArSaveGet(i)
          \/ ArSaveSet(i)
          \/ ArDisableFlagDone(i)

(***************************************************************************)
(* TimeTracker (src/scripts/background.js).                                *)
(*                                                                         *)
(* The in-memory state is gathered in a record M so that the synchronous   *)
(* part of a call chain (handleTabChange -> pauseCurrentTracking ->        *)
(* recordTimeSpent -> flushPendingData) composes as functions M -> M.  A   *)
(* chain that reaches a real await (storage, tabs) is parked in M.tasks    *)
(* with the continuations still to run, innermost first:                   *)
(*   "R2"  recordTimeSpent after its flush:   lastSaveTime = now           *)
(*   "P2"  pauseCurrentTracking after record: currentUrl = null, ...       *)
(*   "H2"  handleTabChange after its pause:   chrome.tabs.get(tabId)       *)
(*   "F"   handleBrowserShutdown after pause: flushPendingData()           *)
(*   "S"   handleBrowserShutdown after flush: saveTrackingState()          *)
(* An await on a promise that is already settled resumes in a microtask,   *)
(* before any other event is handled, so it is part of the same action.    *)
(***************************************************************************)
PAUSE_MIN_MS == 5000          \* pauseCurrentTracking's threshold
SAVE_THROTTLE_MS == 10000     \* recordTimeSpent's opportunistic-flush threshold
MaxTtTasks == 2               \* async handlers suspended at an await at one time
Tabs == {1, 2}

TtTabUrls == {UrlA, UrlA2, UrlB, UrlInternal}
TtRaws == {UrlA, UrlA2, UrlB}

\* pendingData without today's entry, and an entry
NoBuf == [has |-> FALSE, data |-> EmptyDay]

\* A suspended chain.  pc: "get"/"set" (flushPendingData's storage calls) or
\* "tabs" (chrome.tabs.get).  For a flush: ref says whether its urlData is
\* still the object in pendingData ("live") or one that clear() detached
\* ("snap", contents in snap); seen: its Map iterator has yielded the entry
\* now in pendingData; upd: the `updates` object, which holds today's record
\* once storage.get answered.  k: continuations; rnow: recordTimeSpent's
\* `now`; tab: handleTabChange's tabId.
TtTask(pc, k, rnow, tab) ==
    [pc |-> pc, ref |-> "live", snap |-> <<>>, seen |-> TRUE, upd |-> [has |-> FALSE],
     k |-> k, rnow |-> rnow, tab |-> tab]

TtMem ==
    [url |-> ttUrl, tab |-> ttTab, start |-> ttStart, lastSave |-> ttLastSave,
     buf |-> ttBuf, tasks |-> ttTasks, raw |-> ttRaw, visits |-> ttVisits]

TtSetMem(M) ==
    /\ ttUrl' = M.url
    /\ ttTab' = M.tab
    /\ ttStart' = M.start
    /\ ttLastSave' = M.lastSave
    /\ ttBuf' = M.buf
    /\ ttTasks' = M.tasks
    /\ ttRaw' = M.raw
    /\ ttVisits' = M.visits

TtInit ==
    /\ ttUrl = <<>>
    /\ ttTab = 0
    /\ ttStart = 0
    /\ ttTracking = TRUE
    /\ ttActive = TRUE
    /\ ttLastSave = 0
    /\ ttBuf = NoBuf
    /\ ttTasks = <<>>
    /\ ttRaw = <<>>
    /\ ttVisits = [r \in TtRaws |-> 0]
    /\ ttFailed = FALSE
    /\ ttClosed = {}

TtReady(i) ==
    /\ i \in 1..Len(ttTasks)
    /\ \A j \in 1..(i - 1) : Channel(ttTasks[j]) # Channel(ttTasks[i])

\* TimeTracker.isValidUrl
isValidUrl(url) ==
    /\ url # <<>>
    /\ ~(Len(url) >= 2 /\ url[2] = "//" /\ url[1] \in {"chrome:", "chrome-extension:"})
    /\ ParseUrl(url).ok

RECURSIVE RunCont(_, _, _)
\* Resume the continuations k of chain t, until one of them awaits again.
RunCont(M, k, t) ==
    IF k = <<>> THEN M
    ELSE CASE Head(k) = "R2" ->
                RunCont([M EXCEPT !.lastSave = t.rnow], Tail(k), t)
           [] Head(k) = "P2" ->
                RunCont([M EXCEPT !.url = <<>>, !.tab = 0, !.start = 0, !.raw = <<>>],
                        Tail(k), t)
           [] Head(k) = "H2" ->
                [M EXCEPT !.tasks = Append(@, TtTask("tabs", Tail(k), t.rnow, t.tab))]
           [] Head(k) = "F" ->
                IF ~M.buf.has THEN RunCont(M, Tail(k), t)
                ELSE [M EXCEPT !.tasks = Append(@, TtTask("get", Tail(k), t.rnow, t.tab))]
           [] Head(k) = "S" ->
                [M EXCEPT !.tasks = Append(@, TtTask("state", Tail(k), t.rnow, t.tab))]

\* flushPendingData() up to its first await, called with continuations k
FlushCall(M, k, t) ==
    IF ~M.buf.has THEN RunCont(M, k, t)
    ELSE [M EXCEPT !.tasks = Append(@, TtTask("get", k, t.rnow, t.tab))]

\* recordTimeSpent: whether it flushes now
FlushOnRecord(M) == now - M.lastSave > SAVE_THROTTLE_MS

\* recordTimeSpent(url, timeMs) up to its first await
RecordCall(M, url, timeMs, k, t) ==
    LET M1 == [M EXCEPT !.buf = [has |-> TRUE,
                                 data |-> [M.buf.data EXCEPT ![url] = @ + timeMs]],
                        !.visits[M.raw] = @ + timeMs]
    IN  IF FlushOnRecord(M)
        THEN FlushCall(M1, <<"R2">> \o k, [t EXCEPT !.rnow = now])
        ELSE RunCont(M1, k, t)

\* pauseCurrentTracking() up to its first await
PauseCall(M, k, t) ==
    IF M.url = <<>> \/ M.start = 0 THEN RunCont(M, k, t)
    ELSE LET timeSpent == now - M.start
         IN  IF timeSpent >= PAUSE_MIN_MS
             THEN RecordCall(M, M.url, timeSpent, <<"P2">> \o k, t)
             ELSE RunCont(M, <<"P2">> \o k, t)

NoChain == TtTask("none", <<>>, 0, 0)

\* startTrackingUrl(url, tabId).  Its pauseCurrentTracking() is not awaited:
\* when that call has to await recordTimeSpent, the rest of it ("P2") runs
\* after startTrackingUrl has stored the new session.
StartTrackingUrl(M, url, tabId) ==
    LET normalizedUrl == normalizeUrl(url)
        Started(X) == [X EXCEPT !.url = normalizedUrl, !.tab = tabId,
                                !.start = now, !.raw = url]
    IN  IF M.url = normalizedUrl /\ M.tab = tabId THEN M
        ELSE IF M.url = <<>> \/ M.start = 0 \/ now - M.start < PAUSE_MIN_MS
             THEN Started(M)
        ELSE IF FlushOnRecord(M)
             \* the pause is parked behind the flush; the session starts now
             THEN Started(RecordCall(M, M.url, now - M.start, <<"P2">>, NoChain))
             \* the pause resumes in a microtask, after the session started
             ELSE RunCont(Started(RecordCall(M, M.url, now - M.start, <<>>, NoChain)),
                          <<"P2">>, NoChain)

TtTick ==
    /\ \E d \in TtTickSteps :
          /\ now + d <= StartTime + TtHorizon
          /\ now' = now + d
    /\ UNCHANGED <<store, ttVars, ttOthers>>

\* handleTabChange(tabId), from tabs.onActivated or tabs.onUpdated
TtTabChange ==
    /\ ttTracking /\ ttActive
    /\ Len(ttTasks) < MaxTtTasks
    /\ \E tabId \in Tabs \ ttClosed :
          TtSetMem(PauseCall(TtMem, <<"H2">>, TtTask("none", <<>>, 0, tabId)))
    /\ UNCHANGED <<envVars, ttTracking, ttActive, ttFailed, ttClosed, ttOthers>>

\* handleTabChange: chrome.tabs.get answered (or threw)
TtTabsGet(i) ==
    /\ TtReady(i)
    /\ ttTasks[i].pc = "tabs"
    /\ LET M == [TtMem EXCEPT !.tasks = Remove(ttTasks, i)]
       IN  \/ /\ ttTasks[i].tab \notin ttClosed
              /\ \E url \in TtTabUrls :
                 TtSetMem(IF isValidUrl(url)
                            THEN StartTrackingUrl(M, url, ttTasks[i].tab)
                            ELSE M)
           \/ TtSetMem(M)
    /\ UNCHANGED <<envVars, ttTracking, ttActive, ttFailed, ttClosed, ttOthers>>

\* tabs.onRemoved for the tracked tab; a tab is removed once
TtTabRemoved ==
    /\ ttTab # 0
    /\ ttTab \notin ttClosed
    /\ Len(ttTasks) < MaxTtTasks
    /\ ttClosed' = ttClosed \cup {ttTab}
    /\ TtSetMem(PauseCall(TtMem, <<>>, NoChain))
    /\ UNCHANGED <<envVars, ttTracking, ttActive, ttFailed, ttOthers>>

\* setupPeriodicSave's interval, or a flushData message
TtPeriodicSave ==
    /\ ttBuf.has
    /\ Len(ttTasks) < MaxTtTasks
    /\ TtSetMem(FlushCall(TtMem, <<>>, NoChain))
    /\ UNCHANGED <<envVars, ttTracking, ttActive, ttFailed, ttClosed, ttOthers>>

\* A catch block that drops what was buffered.
FlushFailedClears(M) == [M EXCEPT !.buf = NoBuf]

\* flushPendingData's catch block: the error is logged, pendingData is not touched
FlushFailed(M) == M

\* flushPendingData: storage.get answered.  Merge urlData into the record
\* read, then take the next entry of pendingData or issue storage.set.
FlushGetDone(i) ==
    /\ TtReady(i)
    /\ ttTasks[i].pc = "get"
    /\ LET t == ttTasks[i]
           M == [TtMem EXCEPT !.tasks = Remove(ttTasks, i)]
           urlData == IF t.ref = "live" THEN ttBuf.data ELSE t.snap
           dayData == [k \in Keys |-> store[k] + urlData[k]]
           t1 == [t EXCEPT !.upd = [has |-> TRUE, data |-> dayData]]
       IN  \/ /\ TtSetMem([M EXCEPT !.tasks =
                    Append(@, IF ttBuf.has /\ ~t.seen
                                THEN [t1 EXCEPT !.ref = "live", !.seen = TRUE]
                                ELSE [t1 EXCEPT !.pc = "set"])])
              /\ UNCHANGED ttFailed
           \/ /\ TtSetMem(RunCont(FlushFailed(M), t.k, t))
              /\ ttFailed' = TRUE
    /\ UNCHANGED <<envVars, ttTracking, ttActive, ttClosed>>

TtFlushGet(i) == FlushGetDone(i) /\ UNCHANGED ttOthers

\* pendingData.clear(): the entry leaves the Map; a flush still holding the
\* object keeps its contents, and every Map iterator will yield a new entry.
Cleared(M) ==
    [M EXCEPT !.buf = NoBuf,
              !.tasks = [j \in DOMAIN M.tasks |->
                            IF M.tasks[j].pc \in {"get", "set"}
                            THEN [M.tasks[j] EXCEPT
                                    !.snap = IF M.tasks[j].ref = "live"
                                               THEN M.buf.data ELSE @,
                                    !.ref = "snap",
                                    !.seen = FALSE]
                            ELSE M.tasks[j]]]

\* flushPendingData: storage.set(updates) applied and answered, or failed
FlushSetDone(i) ==
    /\ TtReady(i)
    /\ ttTasks[i].pc = "set"
    /\ LET t == ttTasks[i]
           M == [TtMem EXCEPT !.tasks = Remove(ttTasks, i)]
       IN  \/ /\ store' = t.upd.data
              /\ TtSetMem(RunCont(Cleared(M), t.k, t))
              /\ UNCHANGED ttFailed
           \/ /\ TtSetMem(RunCont(FlushFailed(M), t.k, t))
              /\ ttFailed' = TRUE
              /\ UNCHANGED store
    /\ UNCHANGED <<now, ttTracking, ttActive, ttClosed>>

TtFlushSet(i) == FlushSetDone(i) /\ UNCHANGED ttOthers

TtNext ==
    \/ TtTick
    \/ TtTabChange
    \/ TtTabRemoved
    \/ TtPeriodicSave
    \/ \E i \in 1..MaxTtTasks :
          \/ TtTabsGet(i)
          \/ TtFlushGet(i)
          \/ TtFlushSet(i)

(***************************************************************************)
(* The TimeTracker with the browser's focus, tab removal and shutdown      *)
(* (src/scripts/background.js).  The handlers are the ones above, run on   *)
(* the same parked chains; the history variables record which handler      *)
(* ended a session and what startTrackingUrl was last asked to open.       *)
(***************************************************************************)
FcHorizon == 10000   \* the clock stops this long after StartTime
MaxFcEvents == 3     \* events the TimeTracker receives in one run

FcIdle ==
    /\ fcTarget = <<>>
    /\ fcBy = "none"
    /\ fcEvents = 0
    /\ fcReports = 0
    /\ fcRepeat = FALSE
    /\ fcShut = "no"
    /\ fcOwed = EmptyDay

\* The constructor's fields, with isTracking as loadTrackingState left it.
FcInit ==
    /\ ttUrl = <<>>
    /\ ttTab = 0
    /\ ttStart = 0
    /\ ttTracking \in BOOLEAN
    /\ ttActive = TRUE
    /\ ttLastSave = 0
    /\ ttBuf = NoBuf
    /\ ttTasks = <<>>
    /\ ttRaw = <<>>
    /\ ttVisits = [r \in TtRaws |-> 0]
    /\ ttFailed = FALSE
    /\ ttClosed = {}
    /\ FcIdle

HadSession == ttUrl # <<>> /\ ttStart # 0

\* history: a handler called pauseCurrentTracking
FcPaused(by) ==
    /\ fcTarget' = <<>>
    /\ fcBy' = IF HadSession THEN by ELSE fcBy

\* history: startTrackingUrl was called for the key normalizedUrl in memory M
FcStartedAs(M, normalizedUrl, tabId, from) ==
    fcTarget' = [url |-> normalizedUrl, tab |-> tabId,
                 at |-> IF M.url = normalizedUrl /\ M.tab = tabId THEN M.start ELSE now,
                 diff |-> M.url # <<>> /\ ~(M.url = normalizedUrl /\ M.tab = tabId),
                 from |-> from]

\* history: a handler called startTrackingUrl(url, tabId) in memory M
FcStarted(M, url, tabId, from) == FcStartedAs(M, normalizeUrl(url), tabId, from)

\* A handler that acts on every report.
FocusChangedAlways(was, is) == TRUE

\* wasChromeActive !== this.isChromeActive
FocusChanged(was, is) == was # is

\* A branch that leaves the session running.
FocusLostKeeps(M) == M

\* the branch taken when focus was lost: await this.pauseCurrentTracking()
FocusLost(M) == PauseCall(M, <<>>, NoChain)

\* startTrackingCurrentTab() up to its await of chrome.tabs.query
StartTrackingCurrentTab(M, tracking, active) ==
    IF ~tracking \/ ~active THEN M
    ELSE [M EXCEPT !.tasks = Append(@, TtTask("query", <<>>, 0, 0))]

\* A listener that pauses whichever tab closes.
OwnsSessionAny(tabId, M) == TRUE

\* tabs.onRemoved: tabId === this.currentTabId
OwnsSession(tabId, M) == tabId = M.tab

\* A shutdown that saves the tracking state without flushing.
ShutdownChainNoFlush == <<"S">>

\* handleBrowserShutdown after its pause: flushPendingData, saveTrackingState
ShutdownChain == <<"F", "S">>

\* The body of handleWindowFocusChange, and of checkChromeActive after its await.
FocusReport(M, focused, by) ==
    /\ ttActive' = focused
    /\ fcReports' = fcReports + 1
    /\ fcRepeat' = (fcRepeat \/ (focused = ttActive /\ HadSession))
    /\ IF FocusChanged(ttActive, focused)
       THEN IF focused
            THEN /\ TtSetMem(StartTrackingCurrentTab(M, ttTracking, focused))
                 /\ UNCHANGED <<fcTarget, fcBy>>
            ELSE /\ TtSetMem(FocusLost(M))
                 /\ FcPaused(by)
       ELSE /\ TtSetMem(M)
            /\ UNCHANGED <<fcTarget, fcBy>>

FcTick ==
    /\ now + PAUSE_MIN_MS <= StartTime + FcHorizon
    /\ now' = now + PAUSE_MIN_MS
    /\ UNCHANGED <<store, ttVars, fcVars, fcOthers>>

\* handleTabChange(tabId), from tabs.onActivated or tabs.onUpdated
FcTabChange ==
    /\ fcShut = "no"
    /\ fcEvents < MaxFcEvents
    /\ fcEvents' = fcEvents + 1
    /\ ttTracking /\ ttActive
    /\ Len(ttTasks) < MaxTtTasks
    /\ \E tabId \in Tabs \ ttClosed :
          TtSetMem(PauseCall(TtMem, <<"H2">>, TtTask("none", <<>>, 0, tabId)))
    /\ FcPaused("tabChange")
    /\ UNCHANGED <<envVars, ttTracking, ttActive, ttFailed, ttClosed>>
    /\ UNCHANGED <<fcReports, fcRepeat, fcShut, fcOwed, fcOthers>>

\* handleTabChange: chrome.tabs.get answered (or threw)
FcTabsGet(i) ==
    /\ TtReady(i)
    /\ ttTasks[i].pc = "tabs"
    /\ LET M == [TtMem EXCEPT !.tasks = Remove(ttTasks, i)]
       IN  \/ /\ ttTasks[i].tab \notin ttClosed
              /\ \E url \in TtTabUrls :
                    IF isValidUrl(url)
                    THEN /\ TtSetMem(StartTrackingUrl(M, url, ttTasks[i].tab))
                         /\ FcStarted(M, url, ttTasks[i].tab, "tabChange")
                    ELSE /\ TtSetMem(M)
                         /\ UNCHANGED fcTarget
           \/ /\ TtSetMem(M)
              /\ UNCHANGED fcTarget
    /\ UNCHANGED <<envVars, ttTracking, ttActive, ttFailed, ttClosed>>
    /\ UNCHANGED <<fcBy, fcEvents, fcReports, fcRepeat, fcShut, fcOwed, fcOthers>>

\* tabs.onRemoved, for any open tab; a tab is removed once
FcTabRemoved ==
    /\ fcShut = "no"
    /\ fcEvents < MaxFcEvents
    /\ fcEvents' = fcEvents + 1
    /\ Len(ttTasks) < MaxTtTasks
    /\ \E tabId \in Tabs \ ttClosed :
          /\ ttClosed' = ttClosed \cup {tabId}
          /\ IF OwnsSession(tabId, TtMem)
             THEN /\ TtSetMem(PauseCall(TtMem, <<>>, NoChain))
                  /\ FcPaused("removed")
             ELSE /\ TtSetMem(TtMem)
                  /\ UNCHANGED <<fcTarget, fcBy>>
    /\ UNCHANGED <<envVars, ttTracking, ttActive, ttFailed>>
    /\ UNCHANGED <<fcReports, fcRepeat, fcShut, fcOwed, fcOthers>>

\* setupPeriodicSave's interval; it keeps firing while the shutdown handler runs
FcPeriodicSave ==
    /\ fcShut # "done"
    /\ fcEvents < MaxFcEvents
    /\ fcEvents' = fcEvents + 1
    /\ ttBuf.has
    /\ Len(ttTasks) < MaxTtTasks
    /\ TtSetMem(FlushCall(TtMem, <<>>, NoChain))
    /\ UNCHANGED <<envVars, ttTracking, ttActive, ttFailed, ttClosed>>
    /\ UNCHANGED <<fcTarget, fcBy, fcReports, fcRepeat, fcShut, fcOwed, fcOthers>>

FcFlushGet(i) == FlushGetDone(i) /\ UNCHANGED <<fcVars, fcOthers>>

FcFlushSet(i) == FlushSetDone(i) /\ UNCHANGED <<fcVars, fcOthers>>

\* windows.onFocusChanged: handleWindowFocusChange(windowId)
FcFocusChanged ==
    /\ fcShut = "no"
    /\ fcEvents < MaxFcEvents
    /\ fcEvents' = fcEvents + 1
    /\ Len(ttTasks) < MaxTtTasks
    /\ \E focused \in BOOLEAN : FocusReport(TtMem, focused, "focus")
    /\ UNCHANGED <<envVars, ttTracking, ttFailed, ttClosed>>
    /\ UNCHANGED <<fcShut, fcOwed, fcOthers>>

\* startFocusDetection's interval: checkChromeActive() up to its await
FcCheckActive ==
    /\ fcShut = "no"
    /\ fcEvents < MaxFcEvents
    /\ fcEvents' = fcEvents + 1
    /\ Len(ttTasks) < MaxTtTasks
    /\ TtSetMem([TtMem EXCEPT !.tasks = Append(@, TtTask("wins", <<>>, 0, 0))])
    /\ UNCHANGED <<envVars, ttTracking, ttActive, ttFailed, ttClosed>>
    /\ UNCHANGED <<fcTarget, fcBy, fcReports, fcRepeat, fcShut, fcOwed, fcOthers>>

\* checkChromeActive: chrome.windows.getAll answered, or threw
FcWinsDone(i) ==
    /\ TtReady(i)
    /\ ttTasks[i].pc = "wins"
    /\ LET M == [TtMem EXCEPT !.tasks = Remove(ttTasks, i)]
       IN  \/ \E focused \in BOOLEAN : FocusReport(M, focused, "check")
           \/ /\ ttActive' = TRUE
              /\ TtSetMem(M)
              /\ UNCHANGED <<fcTarget, fcBy, fcReports, fcRepeat>>
    /\ UNCHANGED <<envVars, ttTracking, ttFailed, ttClosed>>
    /\ UNCHANGED <<fcEvents, fcShut, fcOwed, fcOthers>>

\* startTrackingCurrentTab: chrome.tabs.query answered (or threw)
FcQueryDone(i) ==
    /\ TtReady(i)
    /\ ttTasks[i].pc = "query"
    /\ LET M == [TtMem EXCEPT !.tasks = Remove(ttTasks, i)]
       IN  \/ \E url \in TtTabUrls, tabId \in Tabs \ ttClosed :
                    IF isValidUrl(url)
                    THEN /\ TtSetMem(StartTrackingUrl(M, url, tabId))
                         /\ FcStarted(M, url, tabId, "focus")
                    ELSE /\ TtSetMem(M)
                         /\ UNCHANGED fcTarget
           \/ /\ TtSetMem(M)
              /\ UNCHANGED fcTarget
    /\ UNCHANGED <<envVars, ttTracking, ttActive, ttFailed, ttClosed>>
    /\ UNCHANGED <<fcBy, fcEvents, fcReports, fcRepeat, fcShut, fcOwed, fcOthers>>

\* runtime.onSuspend: handleBrowserShutdown() up to its first await.  The
\* event is sent to an idle page; tab or focus activity after it cancels the
\* suspension, so the run ends with the handler and the timers' flushes.
FcShutdown ==
    /\ fcShut = "no"
    /\ ttTasks = <<>>
    /\ fcShut' = "running"
    /\ LET M == PauseCall(TtMem, ShutdownChain, NoChain)
       IN  /\ TtSetMem(M)
           /\ fcOwed' = [k \in Keys |-> store[k] + M.buf.data[k]]
    /\ FcPaused("shutdown")
    /\ UNCHANGED <<envVars, ttTracking, ttActive, ttFailed, ttClosed>>
    /\ UNCHANGED <<fcEvents, fcReports, fcRepeat, fcOthers>>

\* saveTrackingState: storage.set answered or failed; the handler returns
FcStateSaved(i) ==
    /\ TtReady(i)
    /\ ttTasks[i].pc = "state"
    /\ TtSetMem(RunCont([TtMem EXCEPT !.tasks = Remove(ttTasks, i)],
                        ttTasks[i].k, ttTasks[i]))
    /\ fcShut' = "done"
    /\ \/ UNCHANGED ttFailed
       \/ ttFailed' = TRUE
    /\ UNCHANGED <<envVars, ttTracking, ttActive, ttClosed>>
    /\ UNCHANGED <<fcTarget, fcBy, fcEvents, fcReports, fcRepeat, fcOwed, fcOthers>>

FcNext ==
    \/ FcTick
    \/ FcTabChange
    \/ FcTabRemoved
    \/ FcPeriodicSave
    \/ FcFocusChanged
    \/ FcCheckActive
    \/ FcShutdown
    \/ \E i \in 1..MaxTtTasks :
          \/ FcTabsGet(i)
          \/ FcFlushGet(i)
          \/ FcFlushSet(i)
          \/ FcWinsDone(i)
          \/ FcQueryDone(i)
          \/ FcStateSaved(i)

(***************************************************************************)
(* Retention sweep (src/unnamed/part_004, performDataCleanup).             *)
(*                                                                         *)
(* A date is <<year, month, day>> with month in 1..12.  A date string is   *)
(* the sequence of its characters, a digit as its value and "-" as -1, so  *)
(* that the order of the numbers is the order of the characters.           *)
(***************************************************************************)
DATA_RETENTION_MONTHS == 3
FirstYear == 2024     \* the oldest year with a DayRecord
LastYear == 2025      \* the year the sweep runs in
MaxRecords == 2       \* DayRecords in storage when the sweep starts
SweepDays == {1, 28}

SweepDates == (FirstYear..LastYear) \X (1..12) \X SweepDays

RECURSIVE Digits(_)
\* String(n) for n >= 0
Digits(n) == IF n < 10 THEN <<n>> ELSE Digits(n \div 10) \o <<n % 10>>

\* str.padStart(2, '0')
PadStart2(str) == IF Len(str) < 2 THEN <<0>> \o str ELSE str

\* A formatter that forgets to pad the month and the day.
getLocalDateStringNoPad(date) ==
    Digits(date[1]) \o <<-1>> \o Digits(date[2]) \o <<-1>> \o Digits(date[3])

\* getLocalDateString(date)
getLocalDateString(date) ==
    Digits(date[1]) \o <<-1>> \o PadStart2(Digits(date[2]))
        \o <<-1>> \o PadStart2(Digits(date[3]))

\* new Date(year, monthIndex, day) with monthIndex possibly out of 0..11
JsDate(year, monthIndex, day) ==
    <<year + (monthIndex \div 12), (monthIndex % 12) + 1, day>>

RECURSIVE StrLess(_, _)
\* a < b on strings
StrLess(a, b) ==
    IF b = <<>> THEN FALSE
    ELSE IF a = <<>> THEN TRUE
    ELSE IF a[1] # b[1] THEN a[1] < b[1]
    ELSE StrLess(Tail(a), Tail(b))

\* A test that takes every suffix for a date.
IsDateStrAny(dateStr) == TRUE

\* /^\d{4}-\d{2}-\d{2}$/.test(dateStr)
IsDateStr(dateStr) ==
    /\ Len(dateStr) = 10
    /\ \A i \in 1..10 : IF i \in {5, 8} THEN dateStr[i] = -1 ELSE dateStr[i] \in 0..9

\* calculateDataCutoffDate()
calculateDataCutoffDate ==
    getLocalDateString(JsDate(cuToday[1], (cuToday[2] - 1) - DATA_RETENTION_MONTHS, 1))

\* findDataKeysToRemove(allData, cutoffDateStr), on the date part of the keys
findDataKeysToRemove(allData, cutoffDateStr) ==
    {dateStr \in allData : IsDateStr(dateStr) /\ StrLess(dateStr, cutoffDateStr)}

RECURSIVE SubsetsUpTo(_, _)
\* The subsets of S with at most n elements.
SubsetsUpTo(S, n) ==
    IF n = 0 THEN {{}}
    ELSE LET P == SubsetsUpTo(S, n - 1)
         IN  P \cup {x \cup {e} : x \in P, e \in S}

\* Storage entries that are not DayRecords: the persisted flag, the
\* autoResumeTimer record, and a 'data_' key whose suffix is not a padded date.
OtherEntries ==
    {<<"", "isTracking", FALSE>>,
     <<"", "autoResumeTimer", [active |-> TRUE, endTime |-> StartTime + AUTO_RESUME_MS]>>,
     <<"data_", getLocalDateStringNoPad(<<FirstYear, 1, 1>>), EmptyDay>>}

\* Object.keys(allData) that start with 'data_', without that prefix.
DataSuffixes(dates, extra) ==
    {getLocalDateString(d) : d \in dates} \cup {e[2] : e \in {x \in extra : x[1] = "data_"}}

CuIdle ==
    /\ cuToday = <<LastYear, 1, 1>>
    /\ cuStore = {}
    /\ cuBefore = {}
    /\ cuRemove = {}
    /\ cuPc = "idle"
    /\ cuExtra = {}
    /\ cuMeta = <<>>

\* The sweep is about to start on some day of LastYear, with up to MaxRecords
\* DayRecords in storage.
CuInit ==
    /\ cuToday \in {LastYear} \X (1..12) \X SweepDays
    /\ cuStore \in SubsetsUpTo(SweepDates, MaxRecords)
    /\ cuBefore = {}
    /\ cuRemove = {}
    /\ cuPc = "get"
    /\ cuExtra \in {{}, OtherEntries}
    /\ cuMeta = <<>>

\* performDataCleanup: storage.get(null) answered (or failed)
CuGet ==
    /\ cuPc = "get"
    /\ \/ /\ cuBefore' = cuStore
          /\ cuRemove' = findDataKeysToRemove(DataSuffixes(cuStore, cuExtra),
                                              calculateDataCutoffDate)
          /\ cuPc' = IF cuRemove' # {} THEN "remove" ELSE "meta"
       \/ /\ cuPc' = "failed"
          /\ UNCHANGED <<cuBefore, cuRemove>>
    /\ UNCHANGED <<cuToday, cuStore, cuExtra, cuMeta>>
    /\ UNCHANGED cuOthers

\* performDataCleanup: storage.remove(dataKeysToRemove) applied (or failed)
CuRemove ==
    /\ cuPc = "remove"
    /\ \/ /\ cuStore' = {d \in cuStore : getLocalDateString(d) \notin cuRemove}
          /\ cuExtra' = {e \in cuExtra : ~(e[1] = "data_" /\ e[2] \in cuRemove)}
          /\ cuPc' = "meta"
       \/ /\ cuPc' = "failed"
          /\ UNCHANGED <<cuStore, cuExtra>>
    /\ UNCHANGED <<cuToday, cuBefore, cuRemove, cuMeta>>
    /\ UNCHANGED cuOthers

\* saveCleanupMetadata: lastAutomaticCleanup written, or its failure caught;
\* performDataCleanup returns success
CuMeta ==
    /\ cuPc = "meta"
    /\ cuPc' = "done"
    /\ \/ cuMeta' = <<Cardinality(cuRemove), calculateDataCutoffDate>>
       \/ UNCHANGED cuMeta
    /\ UNCHANGED <<cuToday, cuStore, cuBefore, cuRemove, cuExtra>>
    /\ UNCHANGED cuOthers

\* saveTimeData, while the sweep runs: today's DayRecord is written
CuSaveToday ==
    /\ cuPc \in {"get", "remove", "meta"}
    /\ cuToday \notin cuStore
    /\ cuStore' = cuStore \cup {cuToday}
    /\ UNCHANGED <<cuToday, cuBefore, cuRemove, cuPc, cuExtra, cuMeta>>
    /\ UNCHANGED cuOthers

CuNext == CuGet \/ CuRemove \/ CuMeta \/ CuSaveToday

(***************************************************************************)
(* TimeTracker: auto-resume (src/scripts/background.js, loadTrackingState, *)
(* enableTracking, disableTracking).  The setTimeout handles are not kept. *)
(***************************************************************************)
TmStep == 10 * 60 * 1000  \* the clock advances in steps of 10 minutes
TmHorizon == 1200000      \* the clock stops this long after StartTime
MaxTmTasks == 3           \* handlers suspended at the same time
MaxTmTimers == 3          \* setTimeout calls
MaxTmStarts == 2          \* starts of the background script
MaxTmRequests == 3        \* messages and startup events
TmMinutes == {0, 10}      \* autoResumeMinutes of a disableTracking message

\* A suspended handler: op "init", "startup", "enable" or "disable"; pc names
\* the await it is parked at; m is autoResumeMinutes; val is the value its
\* storage.set carries.
TmTask(op, pc, m, val) == [op |-> op, pc |-> pc, m |-> m, val |-> val]

\* The call task i waits for has been answered: the calls of one API are
\* answered in the order they were made.
TmAnswered(i) ==
    /\ i \in 1..Len(tmTasks)
    /\ \A j \in 1..(i - 1) : (tmTasks[j].pc = "tabs") # (tmTasks[i].pc = "tabs")

TmIdle ==
    /\ tmTracking = FALSE
    /\ tmFlag = <<>>
    /\ tmRecord = 0
    /\ tmTimers = {}
    /\ tmNextId = 1
    /\ tmTasks = <<>>
    /\ tmReady = FALSE
    /\ tmStarts = 0
    /\ tmRequests = 0
    /\ tmFired = {}

\* constructor: isTracking = false; init() runs up to loadTrackingState's
\* storage.get
TmInit ==
    /\ tmTracking = FALSE
    /\ tmFlag = <<>>
    /\ tmRecord = 0
    /\ tmTimers = {}
    /\ tmNextId = 1
    /\ tmTasks = <<TmTask("init", "load", 0, 0)>>
    /\ tmReady = FALSE
    /\ tmStarts = 1
    /\ tmRequests = 0
    /\ tmFired = {}

\* Time passes; a callback runs when its delay is over.
TmTick ==
    /\ now + TmStep <= StartTime + TmHorizon
    /\ \A t \in tmTimers : t.at > now
    /\ now' = now + TmStep
    /\ UNCHANGED tmVars
    /\ UNCHANGED tmOthers

\* The background script is stopped and started again: its callbacks and
\* suspended handlers are gone, the constructor and init() run.
TmRestart ==
    /\ tmStarts < MaxTmStarts
    /\ tmStarts' = tmStarts + 1
    /\ tmTracking' = FALSE
    /\ tmTimers' = {}
    /\ tmTasks' = <<TmTask("init", "load", 0, 0)>>
    /\ tmReady' = FALSE
    /\ UNCHANGED <<now, tmFlag, tmRecord, tmNextId, tmRequests, tmFired>>
    /\ UNCHANGED tmOthers

\* runtime.onStartup: handleBrowserStartup up to loadTrackingState's storage.get
TmStartup ==
    /\ tmReady
    /\ tmRequests < MaxTmRequests
    /\ Len(tmTasks) < MaxTmTasks
    /\ tmRequests' = tmRequests + 1
    /\ tmTasks' = Append(tmTasks, TmTask("startup", "load", 0, 0))
    /\ UNCHANGED <<now, tmTracking, tmFlag, tmRecord, tmTimers, tmNextId, tmReady, tmStarts,
                   tmFired>>
    /\ UNCHANGED tmOthers

\* loadTrackingState: storage.get answered.  A resume time in the future arms a
\* callback, one in the past is removed; a failure leaves isTracking = true.
\* init() then goes on to setupEventListeners.
TmLoad(i) ==
    /\ TmAnswered(i)
    /\ tmTasks[i].pc = "load"
    /\ \/ /\ tmTracking' = (tmFlag # <<FALSE>>)
          /\ IF tmRecord # 0 /\ tmRecord > now
             THEN /\ tmNextId <= MaxTmTimers
                  /\ tmTimers' = tmTimers \cup {[id |-> tmNextId, at |-> now + (tmRecord - now)]}
                  /\ tmNextId' = tmNextId + 1
                  /\ tmTasks' = Remove(tmTasks, i)
                  /\ tmReady' = (tmReady \/ tmTasks[i].op = "init")
             ELSE IF tmRecord # 0
             THEN /\ tmTasks' = Append(Remove(tmTasks, i), [tmTasks[i] EXCEPT !.pc = "expired"])
                  /\ UNCHANGED <<tmTimers, tmNextId, tmReady>>
             ELSE /\ tmTasks' = Remove(tmTasks, i)
                  /\ tmReady' = (tmReady \/ tmTasks[i].op = "init")
                  /\ UNCHANGED <<tmTimers, tmNextId>>
       \/ /\ tmTracking' = TRUE
          /\ tmTasks' = Remove(tmTasks, i)
          /\ tmReady' = (tmReady \/ tmTasks[i].op = "init")
          /\ UNCHANGED <<tmTimers, tmNextId>>
    /\ UNCHANGED <<now, tmFlag, tmRecord, tmStarts, tmRequests, tmFired>>
    /\ UNCHANGED tmOthers

\* loadTrackingState: storage.remove(['autoResumeTimer']) of an expired timer
\* applied
TmLoadExpired(i) ==
    /\ TmAnswered(i)
    /\ tmTasks[i].pc = "expired"
    /\ tmRecord' = 0
    /\ tmTasks' = Remove(tmTasks, i)
    /\ tmReady' = (tmReady \/ tmTasks[i].op = "init")
    /\ UNCHANGED <<now, tmTracking, tmFlag, tmTimers, tmNextId, tmStarts, tmRequests, tmFired>>
    /\ UNCHANGED tmOthers

\* enableTracking up to saveTrackingState's storage.set
enableTracking(timers, fired) ==
    /\ Len(tmTasks) < MaxTmTasks
    /\ tmTracking' = TRUE
    /\ tmTasks' = Append(tmTasks, TmTask("enable", "flag", 0, TRUE))
    /\ tmTimers' = timers
    /\ tmFired' = fired
    /\ UNCHANGED <<now, tmFlag, tmRecord, tmNextId, tmReady, tmStarts>>

\* An enableTracking message arrives
TmEnable ==
    /\ tmRequests < MaxTmRequests
    /\ tmRequests' = tmRequests + 1
    /\ enableTracking(tmTimers, tmFired)
    /\ UNCHANGED tmOthers

\* A setTimeout callback runs: this.enableTracking()
TmTimerFire ==
    /\ \E t \in tmTimers :
          /\ t.at <= now
          /\ enableTracking(tmTimers \ {t}, tmFired \cup {t})
    /\ UNCHANGED tmRequests
    /\ UNCHANGED tmOthers

\* saveTrackingState: storage.set({isTracking}) applied.  enableTracking goes
\* on to startTrackingCurrentTab; disableTracking arms the auto-resume or
\* returns.
TmFlagSaved(i) ==
    /\ TmAnswered(i)
    /\ tmTasks[i].pc = "flag"
    /\ tmFlag' = <<tmTasks[i].val>>
    /\ tmTasks' = IF tmTasks[i].op = "enable"
                  THEN Append(Remove(tmTasks, i), [tmTasks[i] EXCEPT !.pc = "tabs"])
                  ELSE IF tmTasks[i].m > 0
                  THEN Append(Remove(tmTasks, i),
                              [tmTasks[i] EXCEPT !.pc = "record",
                                                 !.val = now + tmTasks[i].m * 60 * 1000])
                  ELSE Remove(tmTasks, i)
    /\ UNCHANGED <<now, tmTracking, tmRecord, tmTimers, tmNextId, tmReady, tmStarts,
                   tmRequests, tmFired>>
    /\ UNCHANGED tmOthers

\* enableTracking: startTrackingCurrentTab returned, on to storage.remove
TmEnableTabs(i) ==
    /\ TmAnswered(i)
    /\ tmTasks[i].pc = "tabs"
    /\ tmTasks' = Append(Remove(tmTasks, i), [tmTasks[i] EXCEPT !.pc = "remove"])
    /\ UNCHANGED <<now, tmTracking, tmFlag, tmRecord, tmTimers, tmNextId, tmReady, tmStarts,
                   tmRequests, tmFired>>
    /\ UNCHANGED tmOthers

\* enableTracking: storage.remove(['autoResumeTimer']) applied
TmEnableRemove(i) ==
    /\ TmAnswered(i)
    /\ tmTasks[i].pc = "remove"
    /\ tmRecord' = 0
    /\ tmTasks' = Remove(tmTasks, i)
    /\ UNCHANGED <<now, tmTracking, tmFlag, tmTimers, tmNextId, tmReady, tmStarts,
                   tmRequests, tmFired>>
    /\ UNCHANGED tmOthers

\* A disableTracking message with autoResumeMinutes = m arrives:
\* disableTracking up to the awaits of pauseCurrentTracking and flushPendingData
TmDisable ==
    /\ tmRequests < MaxTmRequests
    /\ Len(tmTasks) < MaxTmTasks
    /\ tmRequests' = tmRequests + 1
    /\ \E m \in TmMinutes : tmTasks' = Append(tmTasks, TmTask("disable", "pause", m, 0))
    /\ UNCHANGED <<now, tmTracking, tmFlag, tmRecord, tmTimers, tmNextId, tmReady, tmStarts,
                   tmFired>>
    /\ UNCHANGED tmOthers

\* disableTracking: the session is ended and the buffer flushed;
\* isTracking = false, on to saveTrackingState's storage.set
TmDisablePaused(i) ==
    /\ TmAnswered(i)
    /\ tmTasks[i].pc = "pause"
    /\ tmTracking' = FALSE
    /\ tmTasks' = Append(Remove(tmTasks, i), [tmTasks[i] EXCEPT !.pc = "flag", !.val = FALSE])
    /\ UNCHANGED <<now, tmFlag, tmRecord, tmTimers, tmNextId, tmReady, tmStarts,
                   tmRequests, tmFired>>
    /\ UNCHANGED tmOthers

\* disableTracking: storage.set({autoResumeTimer: resumeTime}) applied, then
\* setTimeout(enableTracking, autoResumeMinutes * 60 * 1000)
TmDisableRecord(i) ==
    /\ TmAnswered(i)
    /\ tmTasks[i].pc = "record"
    /\ tmNextId <= MaxTmTimers
    /\ tmRecord' = tmTasks[i].val
    /\ tmTimers' = tmTimers \cup {[id |-> tmNextId, at |-> now + tmTasks[i].m * 60 * 1000]}
    /\ tmNextId' = tmNextId + 1
    /\ tmTasks' = Remove(tmTasks, i)
    /\ UNCHANGED <<now, tmTracking, tmFlag, tmReady, tmStarts, tmRequests, tmFired>>
    /\ UNCHANGED tmOthers

TmNext ==
    \/ TmTick
    \/ TmRestart
    \/ TmStartup
    \/ TmEnable
    \/ TmDisable
    \/ TmTimerFire
    \/ \E i \in 1..MaxTmTasks :
          \/ TmLoad(i)
          \/ TmLoadExpired(i)
          \/ TmFlagSaved(i)
          \/ TmEnableTabs(i)
          \/ TmEnableRemove(i)
          \/ TmDisablePaused(i)
          \/ TmDisableRecord(i)

(***************************************************************************)
(* TimeTracker with the tracking verification poll (src/unnamed/part_003). *)
(* Times and addresses are left out: a session is open or not, the active  *)
(* tab is trackable or not, a session that ends is long enough to be       *)
(* flushed or not.                                                         *)
(***************************************************************************)
MaxVfEvents == 3          \* events and messages
MaxVfQueries == 2         \* chrome.tabs.query calls of the poll outstanding at once
MaxVfFails == 1           \* chrome.tabs.query calls that throw

\* A suspended handler.  pc: "flush" (pauseCurrentTracking inside
\* recordTimeSpent's flushPendingData), "tabs" (chrome.tabs.get), "query"
\* (chrome.tabs.query) or "save" (saveTrackingState); then: what the caller
\* of pauseCurrentTracking does next; from: who called.
VfTask(pc, then, from) == [pc |-> pc, then |-> then, from |-> from]

VfIdle ==
    /\ vfTracking = FALSE
    /\ vfActive = TRUE
    /\ vfSession = FALSE
    /\ vfTabOk = FALSE
    /\ vfTasks = <<>>
    /\ vfEvents = 0
    /\ vfFails = 0
    /\ vfFrom = "none"

\* init() has returned: the listeners and the intervals are set up.
VfInit ==
    /\ vfTracking \in BOOLEAN
    /\ vfActive = TRUE
    /\ vfSession = FALSE
    /\ vfTabOk \in BOOLEAN
    /\ vfTasks = <<>>
    /\ vfEvents = 0
    /\ vfFails = 0
    /\ vfFrom = "none"

\* What the caller of pauseCurrentTracking does once it has returned:
\* handleTabChange calls chrome.tabs.get, disableTracking sets isTracking.
VfContinue(then, base) ==
    /\ vfTasks' = IF then = "get" THEN Append(base, VfTask("tabs", "end", "tab")) ELSE base
    /\ vfTracking' = IF then = "off" THEN FALSE ELSE vfTracking

\* pauseCurrentTracking, up to its await or to its end
pauseCurrentTracking(then, base) ==
    IF ~vfSession
    THEN vfSession' = vfSession /\ VfContinue(then, base)
    ELSE \/ vfSession' = FALSE /\ VfContinue(then, base)
         \/ /\ vfTasks' = Append(base, VfTask("flush", then, "none"))
            /\ UNCHANGED <<vfSession, vfTracking>>

\* startTrackingCurrentTab, up to chrome.tabs.query
startTrackingCurrentTab(tracking, active, from, base) ==
    IF tracking /\ active THEN Append(base, VfTask("query", "end", from)) ELSE base

\* startTrackingUrl: nothing for the session already open; else the open
\* session is paused, un-awaited, and the new one stored
startTrackingUrl(from, base) ==
    IF ~vfSession
    THEN vfSession' = TRUE /\ vfFrom' = from /\ vfTasks' = base
    ELSE \/ vfTasks' = base /\ UNCHANGED <<vfSession, vfFrom>>
         \/ /\ vfFrom' = from
            /\ UNCHANGED vfSession
            /\ \/ vfTasks' = base
               \/ vfTasks' = Append(base, VfTask("flush", "end", "none"))

\* A poll that never finds anything to do.
VerifyNever == FALSE

\* The poll's test: if (this.isTracking && this.isChromeActive && !this.currentUrl)
VerifyDue == vfTracking /\ vfActive /\ ~vfSession

VfQueries == Cardinality({i \in 1..Len(vfTasks) : vfTasks[i].pc = "query"})

\* The 5-second interval of startTrackingVerification fires
VfVerify ==
    /\ VerifyDue
    /\ VfQueries < MaxVfQueries
    /\ vfTasks' = startTrackingCurrentTab(vfTracking, vfActive, "poll", vfTasks)
    /\ UNCHANGED <<vfTracking, vfActive, vfSession, vfTabOk, vfEvents, vfFails, vfFrom>>
    /\ UNCHANGED vfOthers

\* chrome.tabs.query answered
VfQueryDone(i) ==
    /\ i \in 1..Len(vfTasks)
    /\ vfTasks[i].pc = "query"
    /\ IF vfTabOk
       THEN startTrackingUrl(vfTasks[i].from, Remove(vfTasks, i))
       ELSE vfTasks' = Remove(vfTasks, i) /\ UNCHANGED <<vfSession, vfFrom>>
    /\ UNCHANGED <<vfTracking, vfActive, vfTabOk, vfEvents, vfFails>>
    /\ UNCHANGED vfOthers

VfQueryAnswered == \E i \in 1..Len(vfTasks) : VfQueryDone(i)

\* chrome.tabs.query threw; startTrackingCurrentTab catches it
VfQueryFailed(i) ==
    /\ i \in 1..Len(vfTasks)
    /\ vfTasks[i].pc = "query"
    /\ vfFails < MaxVfFails
    /\ vfFails' = vfFails + 1
    /\ vfTasks' = Remove(vfTasks, i)
    /\ UNCHANGED <<vfTracking, vfActive, vfSession, vfTabOk, vfEvents, vfFrom>>
    /\ UNCHANGED vfOthers

\* tabs.onActivated, or tabs.onUpdated with a new address: handleTabChange
VfTabChange ==
    /\ vfEvents < MaxVfEvents
    /\ vfEvents' = vfEvents + 1
    /\ vfTabOk' \in BOOLEAN
    /\ IF vfTracking /\ vfActive
       THEN pauseCurrentTracking("get", vfTasks)
       ELSE UNCHANGED <<vfSession, vfTracking, vfTasks>>
    /\ UNCHANGED <<vfActive, vfFails, vfFrom>>
    /\ UNCHANGED vfOthers

\* handleTabChange: chrome.tabs.get answered
VfTabsGet(i) ==
    /\ i \in 1..Len(vfTasks)
    /\ vfTasks[i].pc = "tabs"
    /\ IF vfTabOk
       THEN startTrackingUrl("tab", Remove(vfTasks, i))
       ELSE vfTasks' = Remove(vfTasks, i) /\ UNCHANGED <<vfSession, vfFrom>>
    /\ UNCHANGED <<vfTracking, vfActive, vfTabOk, vfEvents, vfFails>>
    /\ UNCHANGED vfOthers

\* pauseCurrentTracking: recordTimeSpent returned; the session fields are
\* cleared and the caller goes on
VfFlushed(i) ==
    /\ i \in 1..Len(vfTasks)
    /\ vfTasks[i].pc = "flush"
    /\ vfSession' = FALSE
    /\ VfContinue(vfTasks[i].then, Remove(vfTasks, i))
    /\ UNCHANGED <<vfActive, vfTabOk, vfEvents, vfFails, vfFrom>>
    /\ UNCHANGED vfOthers

\* windows.onFocusChanged: handleWindowFocusChange
VfFocusChanged ==
    /\ vfEvents < MaxVfEvents
    /\ vfEvents' = vfEvents + 1
    /\ vfActive' \in BOOLEAN
    /\ IF vfActive' = vfActive
       THEN UNCHANGED <<vfSession, vfTracking, vfTasks>>
       ELSE IF vfActive'
       THEN /\ vfTasks' = startTrackingCurrentTab(vfTracking, TRUE, "focus", vfTasks)
            /\ UNCHANGED <<vfSession, vfTracking>>
       ELSE pauseCurrentTracking("end", vfTasks)
    /\ UNCHANGED <<vfTabOk, vfFails, vfFrom>>
    /\ UNCHANGED vfOthers

\* tabs.onRemoved for the session's tab: pauseCurrentTracking, un-awaited
VfTabRemoved ==
    /\ vfEvents < MaxVfEvents
    /\ vfSession
    /\ vfEvents' = vfEvents + 1
    /\ pauseCurrentTracking("end", vfTasks)
    /\ UNCHANGED <<vfActive, vfTabOk, vfFails, vfFrom>>
    /\ UNCHANGED vfOthers

\* An enableTracking message: isTracking = true, up to saveTrackingState
VfEnable ==
    /\ vfEvents < MaxVfEvents
    /\ vfEvents' = vfEvents + 1
    /\ vfTracking' = TRUE
    /\ vfTasks' = Append(vfTasks, VfTask("save", "end", "enable"))
    /\ UNCHANGED <<vfActive, vfSession, vfTabOk, vfFails, vfFrom>>
    /\ UNCHANGED vfOthers

\* enableTracking: saveTrackingState returned, on to startTrackingCurrentTab
VfSaved(i) ==
    /\ i \in 1..Len(vfTasks)
    /\ vfTasks[i].pc = "save"
    /\ vfTasks' = startTrackingCurrentTab(vfTracking, vfActive, "enable", Remove(vfTasks, i))
    /\ UNCHANGED <<vfTracking, vfActive, vfSession, vfTabOk, vfEvents, vfFails, vfFrom>>
    /\ UNCHANGED vfOthers

\* A disableTracking message: pauseCurrentTracking, then isTracking = false
VfDisable ==
    /\ vfEvents < MaxVfEvents
    /\ vfEvents' = vfEvents + 1
    /\ pauseCurrentTracking("off", vfTasks)
    /\ UNCHANGED <<vfActive, vfTabOk, vfFails, vfFrom>>
    /\ UNCHANGED vfOthers

VfNext ==
    \/ VfVerify
    \/ VfTabChange
    \/ VfFocusChanged
    \/ VfTabRemoved
    \/ VfEnable
    \/ VfDisable
    \/ VfQueryAnswered
    \/ \E i \in 1..Len(vfTasks) :
          \/ VfQueryFailed(i)
          \/ VfTabsGet(i)
          \/ VfFlushed(i)
          \/ VfSaved(i)

(***************************************************************************)
(* Specifications.                                                         *)
(***************************************************************************)
\* The URL normalizers applied to generated addresses.
NzNext == NzNormalize \/ NzRenormalize

InitNorm == NzInit /\ EnvInit /\ SwInit /\ TtInit /\ CuIdle /\ ArIdle /\ FgIdle /\ FcIdle /\ TmIdle /\ VfIdle

SpecNorm == InitNorm /\ [][NzNext]_vars

\* The TimeTracker.
InitTT == NzIdle /\ EnvInit /\ SwInit /\ TtInit /\ CuIdle /\ ArIdle /\ FgIdle /\ FcIdle /\ TmIdle /\ VfIdle

SpecTT == InitTT /\ [][TtNext]_vars

\* The TimeTracker ending one session: a session was started at StartTime and
\* has been open for some time when the events that end it arrive.
PauseElapsed == {1000, 2000, 3000, 4000, 5000, 6000}

InitPause ==
    /\ NzIdle /\ SwInit /\ CuIdle /\ ArIdle /\ FgIdle /\ FcIdle /\ TmIdle /\ VfIdle
    /\ store = EmptyDay
    /\ \E e \in PauseElapsed : now = StartTime + e
    /\ \E raw \in TtRaws : ttRaw = raw /\ ttUrl = normalizeUrl(raw)
    /\ ttTab \in Tabs
    /\ ttStart = StartTime
    /\ ttTracking = TRUE
    /\ ttActive = TRUE
    /\ ttLastSave = 0
    /\ ttBuf = NoBuf
    /\ ttTasks = <<>>
    /\ ttVisits = [r \in TtRaws |-> 0]
    /\ ttFailed = FALSE
    /\ ttClosed = {}

PauseNext ==
    \/ TtTabChange
    \/ TtTabRemoved
    \/ TtPeriodicSave
    \/ \E i \in 1..MaxTtTasks :
          \/ TtTabsGet(i)
          \/ TtFlushGet(i)
          \/ TtFlushSet(i)

SpecPause == InitPause /\ [][PauseNext]_vars

\* The service worker.
InitSW == NzIdle /\ EnvInit /\ SwInit /\ TtInit /\ CuIdle /\ ArIdle /\ FgIdle /\ FcIdle /\ TmIdle /\ VfIdle

SpecSW == InitSW /\ [][SwNext]_vars

\* The service worker over its life: installed, stopped when idle, started again.
InitAR == NzIdle /\ EnvInit /\ SwInit /\ TtInit /\ CuIdle /\ ArInit /\ FgIdle /\ FcIdle /\ TmIdle /\ VfIdle

SpecAR == InitAR /\ [][ArNext]_vars

\* The service worker's tab events and the page each reports.
InitFg == NzIdle /\ EnvInit /\ SwInit /\ TtInit /\ CuIdle /\ ArIdle /\ FgIdle /\ FcIdle /\ TmIdle /\ VfIdle

SpecFg == InitFg /\ [][FgNext]_vars

\* The retention sweep.
InitFocus == NzIdle /\ EnvInit /\ SwInit /\ FcInit /\ CuIdle /\ ArIdle /\ FgIdle /\ TmIdle /\ VfIdle
SpecFocus == InitFocus /\ [][FcNext]_vars

InitSweep == NzIdle /\ EnvInit /\ SwInit /\ TtInit /\ CuInit /\ ArIdle /\ FgIdle /\ FcIdle /\ TmIdle /\ VfIdle

SpecSweep == InitSweep /\ [][CuNext]_vars

\* The TimeTracker's auto-resume over the life of the background script.
InitTimer ==
    /\ NzIdle /\ EnvInit /\ SwInit /\ TtInit /\ CuIdle /\ ArIdle /\ FgIdle /\ FcIdle
    /\ TmInit /\ VfIdle

SpecTimer == InitTimer /\ [][TmNext]_vars

\* The TimeTracker with its verification poll: the interval keeps firing and
\* chrome.tabs.query keeps answering.
InitVerify ==
    /\ NzIdle /\ EnvInit /\ SwInit /\ TtInit /\ CuIdle /\ ArIdle /\ FgIdle /\ FcIdle
    /\ TmIdle /\ VfInit

SpecVerify ==
    InitVerify /\ [][VfNext]_vars /\ WF_vars(VfVerify) /\ WF_vars(VfQueryAnswered)

(***************************************************************************)
(* Claims.                                                                 *)
(***************************************************************************)
SwSaving == \E i \in 1..Len(swTasks) : swTasks[i].pc \in {"get", "set"}

\* C2: concurrent writes to the same day and key never lose an increment:
\* once every saveTimeData call has completed without a storage failure, each
\* DayRecord entry has grown by the sum of the deltas handed to saveTimeData.
C2_NoLostIncrement ==
    (~SwSaving /\ ~swFailed) => \A k \in Keys : store[k] = swIssued[k]

RECURSIVE SumVisits(_, _)
\* The elapsed time recorded for key k: the sum over the raw addresses that
\* normalize to it.
SumVisits(R, k) ==
    IF R = {} THEN 0
    ELSE LET r == CHOOSE x \in R : TRUE
         IN  (IF normalizeUrl(r) = k THEN ttVisits[r] ELSE 0) + SumVisits(R \ {r}, k)

TtQuiescent == ttUrl = <<>> /\ ~ttBuf.has /\ ttTasks = <<>> /\ ~ttFailed

\* C3: flush-count invariance: once no session is open and the buffer has been
\* flushed without storage failure, every DayRecord entry equals the sum of the
\* elapsed times that pauseCurrentTracking handed to recordTimeSpent for its
\* key (the ended sessions that met the minimum duration), however many
\* flushPendingData calls happened in between.
C3_FlushCountInvariance ==
    TtQuiescent => \A k \in Keys : store[k] = SumVisits(TtRaws, k)

\* C4: data is never double-counted: the stored total of a key never exceeds
\* the sum of the deltas recorded for it.
C4_NeverDoubleCounted ==
    \A k \in Keys : store[k] <= SumVisits(TtRaws, k)

\* C5: a session shorter than MIN_VISIT_DURATION_MS contributes nothing,
\* whether a URL change or a disable request ended it: no such session was
\* handed to saveTimeData, and every saveTimeData call in flight carries at
\* least MIN_VISIT_DURATION_MS.
C5_ShortSessionContributesZero ==
    /\ \A e \in swEnded : e.short => ~e.saved
    /\ \A i \in 1..Len(swTasks) :
          swTasks[i].pc \in {"get", "set"} => swTasks[i].ms >= MIN_VISIT_DURATION_MS

\* C5 witness: short sessions were ended both by a URL change and by a
\* disable request, and a long one was saved.
C5_Witness ==
    /\ \E e \in swEnded : e.short /\ e.by = "urlChange"
    /\ \E e \in swEnded : e.short /\ e.by = "disable"
    /\ \E e \in swEnded : ~e.short /\ e.saved

\* C6: once a disable request has responded (tracking is off and no disable is
\* still running), no session is active, also not one started by a tab event
\* that was in flight.
C6_NoSessionSurvivesDisable ==
    (~swTracking /\ \A i \in 1..Len(swTasks) : swTasks[i].op # "disable")
        => ~SwHasSession

\* C7: visits whose addresses normalize to one key merge: once the last visit
\* has ended and the buffer is flushed, the key's entry equals the sum of the
\* visits' elapsed times.
C7_VisitsMerge ==
    (TtQuiescent /\ ttVisits[UrlA] > 0 /\ ttVisits[UrlA2] > 0)
        => store[normalizeUrl(UrlA)] = ttVisits[UrlA] + ttVisits[UrlA2]

\* C8: TimeTracker.normalizeUrl is idempotent.
C8_Idempotent ==
    (nzImpl = "TimeTracker" /\ nzAgain # <<>>) => nzAgain[1] = nzKeys[1]

C10_Monotonic ==
    [][\A k \in Keys : store'[k] >= store[k]]_vars

\* An address the tracker must not open a session for: a browser-internal page,
\* one of the extension's own pages, a local file, or one that does not parse.
Untrackable(url) ==
    \/ ~ParseUrl(url).ok
    \/ url[1] \in {"chrome:", "chrome-extension:", "file:"}

\* C11: the service worker never holds a session for an untrackable address.
C11_NoUntrackableSession ==
    swUrl # <<>> => ~Untrackable(swUrl)

\* Months since year 0 of a date.
MonthIndex(date) == date[1] * 12 + (date[2] - 1)

\* C12: a successful sweep run in month M removes every DayRecord dated before
\* the first day of month M-3 and retains every DayRecord of month M-2 or later.
C12_SweepRemovesAndRetains ==
    cuPc = "done" =>
        \A d \in cuBefore :
            /\ MonthIndex(d) < MonthIndex(cuToday) - 3 => d \notin cuStore
            /\ MonthIndex(d) >= MonthIndex(cuToday) - 2 => d \in cuStore

\* C12 witness: a sweep run in January to March removed a record of the year
\* before and kept another one.
C12_Witness ==
    /\ cuPc = "done"
    /\ cuToday[2] <= 3
    /\ \E d \in cuBefore : d[1] < cuToday[1] /\ d \notin cuStore
    /\ \E d \in cuBefore : d \in cuStore

\* C13: after a successful sweep run in month M no DayRecord dated before the
\* first day of month M-2 remains.
C13_KeepsCurrentPlusTwo ==
    cuPc = "done" =>
        \A d \in cuStore : MonthIndex(d) >= MonthIndex(cuToday) - 2

\* C17: when a storage read or write fails during flushPendingData the buffer
\* keeps every delta it held, and the buffer is emptied only by a step in which
\* a flush's storage.set succeeds.
C17_BufferKeptOnFailure ==
    [][/\ (~ttFailed /\ ttFailed') => ttBuf' = ttBuf
       /\ (ttBuf.has /\ ~ttBuf'.has) =>
             \E i \in 1..Len(ttTasks) :
                 ttTasks[i].pc = "set" /\ store' = ttTasks[i].upd.data]_vars

\* C17 witness: a flush was abandoned on a storage failure and the buffer still
\* holds its deltas.
C17_Witness ==
    /\ ttFailed
    /\ ttTasks = <<>>
    /\ ttBuf.has
    /\ \E k \in Keys : ttBuf.data[k] > 0

\* C19: ending the session that was started at StartTime emits one delta of
\* now - StartTime if that is at least the 3 s minimum visit duration, and none
\* otherwise;
\* the session is discarded either way.  (No later session lasts, so the deltas
\* recorded are those of the first session.)
C19_PauseEmitsOnceIffLongEnough ==
    (ttStart # StartTime /\ ttTasks = <<>>) =>
        /\ SumVisits(TtRaws, normalizeUrl(UrlA)) + SumVisits(TtRaws, normalizeUrl(UrlB))
              = (IF now - StartTime >= MIN_VISIT_DURATION_MS THEN now - StartTime ELSE 0)

\* A suspended pauseCurrentTracking that has recorded the session now open.
PauseInFlight ==
    /\ ttStart > 0
    /\ \E i \in 1..Len(ttTasks) :
          /\ \E j \in 1..Len(ttTasks[i].k) : ttTasks[i].k[j] = "P2"
          /\ ttTasks[i].rnow > ttStart

\* C20: a session whose elapsed time a suspended pauseCurrentTracking has
\* already recorded is not recorded again by a second end event.
C20_RecordedOnce ==
    [][PauseInFlight => ttVisits' = ttVisits]_vars

\* C14: when the worker starts with an active auto-resume record whose endTime
\* has passed, restoreAutoResumeTimer calls executeAutoResume once, never twice.
C14_ResumeOnceAtRestart ==
    arExpired => arRestoreRuns <= 1

\* C15: once a disable request that carried autoResumeMinutes > 0 has been
\* answered, the auto-resume record is persisted as active and the deferred
\* callback is armed.
C15_DisableArmsResume ==
    arOwed => (arRecord.active /\ arId # 0 /\ arTimers # {})

\* C16: when the page's cancel request (record removed, cancelAutoResumeTimer
\* handled) returns, no callback is armed and no active record is persisted.
C16_CancelClearsBoth ==
    [][(pgPc = "cancelmsg" /\ pgPc' = "idle") =>
          (arTimers' = {} /\ ~arRecord'.active)]_vars

\* The initializeExtension calls still waiting for loadTrackingState's storage.get.
LoadsPending == Cardinality({i \in 1..Len(swTasks) : swTasks[i].pc = "load"})

\* C18: when loadTrackingState completes after a start (no storage operation
\* having failed), the in-memory isTracking is the value the last request
\* completed before the start had set; true when none was persisted.
C18_FlagSurvivesRestart ==
    [][(LoadsPending' < LoadsPending /\ ~swFailed') => swTracking' = arLastAtStart]_vars

\* C18 witness: the worker was started again after a disable request and has
\* loaded isTracking = false.
C18_Witness ==
    /\ arStarts = 2
    /\ ~swFailed
    /\ arLastAtStart = FALSE
    /\ swFlag = <<FALSE>>
    /\ swTracking = FALSE
    /\ \E i \in 1..Len(swTasks) : swTasks[i].op = "init" /\ swTasks[i].pc = "restore"

\* C22: once a non-trackable address has become the foreground target, the
\* service worker holds no session (the prior one has ended, none replaced it).
C22_UntrackableEndsSession ==
    (fgUrl # <<>> /\ ~swIsValidUrl(fgUrl)) => ~SwHasSession

\* C23: a tab event whose address has the TrackingKey of the open session
\* leaves the session's startTime unchanged and hands no delta to saveTimeData.
C23_SameKeyIsNoOp ==
    [][(fgEvents' # fgEvents /\ SwHasSession /\ swIsValidUrl(fgUrl')
          /\ swNormalizeUrl(fgUrl') = swUrl)
       => (swStart' = swStart /\ swIssued' = swIssued)]_vars

\* C28: the flush drains the buffer atomically: in the step that empties the
\* buffer, the deltas removed from it are exactly what the step adds to the
\* DayRecord.
C28_DrainEqualsWritten ==
    [][(ttBuf.has /\ ~ttBuf'.has) =>
          \A k \in Keys : store'[k] = store[k] + ttBuf.data[k]]_vars

\* C29: when nothing is left to flush (the buffer is empty, no flush is in
\* flight and no storage operation has failed), every delta that was added to
\* the buffer is reflected in the DayRecord.
C29_EveryDeltaStored ==
    (~ttBuf.has /\ ~ttFailed /\ \A i \in 1..Len(ttTasks) : ttTasks[i].pc \notin {"get", "set"})
        => \A k \in Keys : store[k] >= SumVisits(TtRaws, k)

\* C21: when startTrackingUrl was called for a key or tab other than the open
\* session's and every parked continuation has run, the open session is the
\* one that call stored: its normalized url, its tab, and the time of the call
\* (no storage call having failed).
C21_NewSessionSurvives ==
    (fcTarget # <<>> /\ fcTarget.diff /\ ttTasks = <<>> /\ ~ttFailed)
        => (ttUrl = fcTarget.url /\ ttTab = fcTarget.tab /\ ttStart = fcTarget.at)

C25_RepeatedReportIgnored ==
    [][(fcReports' # fcReports /\ ttActive' = ttActive) =>
          /\ UNCHANGED <<ttUrl, ttTab, ttStart, ttBuf, ttVisits, ttLastSave, store>>
          /\ Cardinality({i \in DOMAIN ttTasks' : ttTasks'[i].pc = "query"})
                <= Cardinality({i \in DOMAIN ttTasks : ttTasks[i].pc = "query"})
          /\ Len(ttTasks') <= Len(ttTasks)
      ]_vars

\* C25 witness: a report repeated the focus state while a session was open,
\* and the session still runs from its original start.
C25_Witness ==
    /\ fcRepeat
    /\ ttActive
    /\ HadSession
    /\ ttStart < now

\* C26: after the browser returned to the foreground and startTrackingCurrentTab
\* found a trackable current tab, the session for that tab is open once every
\* parked continuation has run; and while tracking is disabled no session is
\* open.  Stated for the runs where no storage call failed and the tab found
\* is not one startTrackingUrl has to replace a different session for.
C26_ForegroundRestartsSession ==
    /\ (fcTarget # <<>> /\ fcTarget.from = "focus" /\ ~fcTarget.diff
            /\ ttTasks = <<>> /\ ~ttFailed)
          => (ttUrl = fcTarget.url /\ ttTab = fcTarget.tab)
    /\ ~ttTracking => ttUrl = <<>>

ResumesAtTabs ==
    Cardinality({i \in 1..Len(swTasks) : swTasks[i].op = "resume" /\ swTasks[i].pc = "tabs"})

\* C32: when an executeAutoResume call completes (no storage operation having
\* failed), isTracking is true unless a disable request has been made since,
\* and no callback remains armed, except one whose handle is held and whose
\* autoResumeTimer record is persisted as active (a timer started meanwhile).
C32_ResumeLeavesNothingBehind ==
    [][(ResumesAtTabs' < ResumesAtTabs /\ ~swFailed') =>
          /\ arLast' => swTracking'
          /\ arTimers' # {} => (arId' # 0 /\ arRecord'.active)]_vars

\* The initializeExtension calls waiting for restoreAutoResumeTimer's storage.get.
RestoresPending ==
    Cardinality({i \in 1..Len(swTasks) : swTasks[i].pc = "restore"})

\* The executeAutoResume calls in progress.
ResumesRunning ==
    Cardinality({i \in 1..Len(swTasks) : swTasks[i].op = "resume"})

\* C33: when restoreAutoResumeTimer reads an active record whose endTime is
\* still in the future, it arms a callback for endTime, holds its handle, and
\* leaves isTracking as loaded; executeAutoResume starts only when a callback
\* or a persisted endTime is due; and while the initialized worker is up with
\* an active record for a future endTime, a callback for that endTime is armed
\* (no storage operation having failed, no page request half-way).
C33_RestoreRearms ==
    [][/\ (RestoresPending' < RestoresPending /\ ~swFailed'
             /\ arRecord.active /\ arRecord.endTime > now) =>
            /\ \E t \in arTimers' : t.id = arId' /\ t.at = arRecord.endTime
            /\ swTracking' = swTracking
       /\ ResumesRunning' > ResumesRunning =>
            \/ \E t \in arTimers : t.at <= now
            \/ arRecord.active /\ arRecord.endTime <= now
            \/ pgPc = "startmsg" /\ pgEnd <= now
       /\ (arUp' /\ ~swFailed' /\ pgPc' = "idle"
             /\ (\A i \in 1..Len(swTasks') : swTasks'[i].op # "init")
             /\ arRecord'.active /\ arRecord'.endTime > now') =>
            \E t \in arTimers' : t.at = arRecord'.endTime
      ]_vars

\* C33 witness: the worker was restarted while tracking was disabled and a
\* timer was pending, re-armed the callback, and the callback has re-enabled
\* tracking at endTime and removed the record.
C33_Witness ==
    /\ arStarts = 2
    /\ arLastAtStart = FALSE
    /\ arNextId = 3
    /\ ~swFailed
    /\ now >= StartTime + AUTO_RESUME_MS
    /\ swTracking /\ swFlag = <<TRUE>>
    /\ ~arRecord.active
    /\ arTimers = {}
    /\ swTasks = <<>>

\* C34: whenever the worker is up with tracking enabled, no handler suspended,
\* no page request half-way and no storage operation having failed, no active
\* autoResumeTimer record is persisted and no callback is armed.
C34_TimerOnlyWhilePaused ==
    (arUp /\ swTracking /\ swTasks = <<>> /\ pgPc = "idle" /\ ~swFailed) =>
        (~arRecord.active /\ arTimers = {})

\* The handlers waiting for saveTrackingState's storage.set.
FlagWritesPending ==
    Cardinality({i \in 1..Len(swTasks) : swTasks[i].pc = "flag"})

\* C37: when the storage.set of saveTrackingState fails for the only handler in
\* progress (an enable, a disable or an auto-resume, no storage operation
\* having failed before), the in-memory isTracking afterwards is what the
\* persisted flag loads as.
C37_FailedSaveKeepsFlag ==
    [][(Len(swTasks) = 1 /\ FlagWritesPending' < FlagWritesPending
          /\ ~swFailed /\ swFailed') =>
            swTracking' = loadTrackingState(swFlag')]_vars

\* C35: whenever no TimeTracker handler is suspended at an await (and no
\* storage operation has failed), currentUrl is set only if isTracking and
\* isChromeActive are both true.
C35_SessionOnlyWhileFocused ==
    (ttTasks = <<>> /\ ~ttFailed /\ ttUrl # <<>>) => (ttTracking /\ ttActive)

RECURSIVE SumOver(_, _)
\* The sum of f over the keys in S.
SumOver(f, S) ==
    IF S = {} THEN 0
    ELSE LET k == CHOOSE x \in S : TRUE IN f[k] + SumOver(f, S \ {k})

\* The milliseconds recorded across all keys, persisted and buffered.
TotalRecorded ==
    SumOver(store, Keys) + (IF ttBuf.has THEN SumOver(ttBuf.data, Keys) ELSE 0)

\* C31: the milliseconds recorded across all keys (persisted plus buffered)
\* never exceed the time that has passed since the tracker started, which
\* bounds the time during which the browser was focused and tracking enabled.
C31_RecordedWithinElapsed ==
    TotalRecorded <= now - StartTime

\* The DayRecord of date d is dated before the first day of the month
\* DATA_RETENTION_MONTHS before the current one.
BeforeCutoff(d) == MonthIndex(d) < MonthIndex(cuToday) - DATA_RETENTION_MONTHS

\* C38: a step of performDataCleanup removes nothing but DayRecords dated
\* before the cutoff and writes nothing but lastAutomaticCleanup: the
\* DayRecords on or after the cutoff, the 'data_' keys with a non-date suffix,
\* the isTracking flag and the autoResumeTimer record stay as they are, also
\* when today's DayRecord was written while the sweep was suspended.
C38_SweepFrame ==
    [][cuPc' # cuPc =>
         /\ cuExtra' = cuExtra
         /\ cuStore' \subseteq cuStore
         /\ \A d \in cuStore : ~BeforeCutoff(d) => d \in cuStore']_vars

\* C38 witness: a sweep that removed a DayRecord has finished and written
\* lastAutomaticCleanup; the other entries and a DayRecord written during the
\* sweep are in storage.
C38_Witness ==
    /\ cuPc = "done"
    /\ cuRemove # {}
    /\ cuMeta # <<>>
    /\ cuExtra = OtherEntries
    /\ cuToday \in cuStore \ cuBefore
    /\ \E d \in cuBefore : d \notin cuStore

\* C36: at most one auto-resume callback of the TimeTracker is pending at any
\* time, and no two callbacks run for the same deadline.
C36_OneCallbackOneResume ==
    /\ Cardinality(tmTimers) <= 1
    /\ \A x, y \in tmFired : x.at = y.at => x = y

\* Tracking is enabled, the browser is focused and the active tab is trackable.
ShouldTrack == vfTracking /\ vfActive /\ vfTabOk

\* C39: with the verification poll the clock does not stay idle: whenever
\* tracking is enabled, the browser focused and the active tab trackable, a
\* session eventually is open, unless one of the three stops holding first.
C39_PollStartsSession ==
    ShouldTrack ~> (vfSession \/ ~ShouldTrack)

\* C39 witness: the open session was started by the poll's
\* startTrackingCurrentTab, after a tabs.query call had thrown.
C39_Witness ==
    /\ ShouldTrack
    /\ vfSession
    /\ vfFrom = "poll"
    /\ vfFails > 0
    /\ vfTasks = <<>>
====
